---- MODULE Spec2Model ----
(***************************************************************************)
(* Leads-Prospecting: the Apify job flows of apify_client.py (start an     *)
(* actor run, poll it, fetch its dataset), the record fusion of            *)
(* extractors.py (assemble_lead_record and its normalisation helpers), and *)
(* the company candidates of person_prospect.py and prospect.py            *)
(* (parse_companies and validate_companies).                               *)
(***************************************************************************)
EXTENDS Integers, Sequences, FiniteSets, TLC

VARIABLES
    \* ---- job flows (apify_client.py) ----
    flow,       \* which public function is running
    pc,         \* position inside it
    pv,         \* index of the payload variant being tried (1 = first)
    attempts,   \* every start_actor call so far: [actor, body, ok, text]
    runs,       \* runs the service accepted, by run id: [actor, body]
    run,        \* the local variable run: id of the run held (0 = unset)
    status,     \* status of the most recent get_run of the current wait
    dsid,       \* defaultDatasetId of the most recent get_run (0 = absent)
    elapsed,    \* time.time() - start of the current wait, in ticks
    polled,     \* run id of the most recent get_run (0 = none yet)
    timeouts,   \* every timeout raised so far: [run, at, status]
    fetches,    \* every dataset_items call so far: [run, ds, status]
    outcome,    \* "none" | "returned" | "raised"
    result,     \* what was returned: "none" | "empty" | "items"
    err,        \* the ApifyError raised to the caller
    last_err,   \* call_apify_actor's last_err
    \* ---- one call of a normalisation helper (extractors.py) ----
    ufn,        \* the helper called
    uarg,       \* its arguments
    uret,       \* the values returned so far, in order
    \* ---- assemble_lead_record (extractors.py) ----
    query, google_results, scraped_rows, maps_place, linkedin_url,  \* arguments
    fpc,        \* position: "rows" | "maps" | "pick" | "done" | "raised"
    ri,         \* index of the next scraped row
    official, all_emails, all_phones, all_linkedins,
    rating_value, review_count, company, city, country,
    industry_type, timezone, locations,
    out         \* the record returned

jobVars == <<flow, pc, pv, attempts, runs, run, status, dsid, elapsed,
             polled, timeouts, fetches, outcome, result, err, last_err>>

utilVars == <<ufn, uarg, uret>>

fuseVars == <<query, google_results, scraped_rows, maps_place, linkedin_url,
              fpc, ri, official, all_emails, all_phones, all_linkedins,
              rating_value, review_count, company, city, country,
              industry_type, timezone, locations, out>>

vars == <<jobVars, utilVars, fuseVars>>

notJobVars == <<utilVars, fuseVars>>
notUtilVars == <<jobVars, fuseVars>>
notFuseVars == <<jobVars, utilVars>>

(***************************************************************************)
(* Strings.  Python's str operations, as far as extractors.py uses them,   *)
(* on TLC's strings (Len, SubSeq, Head, Tail and \o apply to them).        *)
(***************************************************************************)
\* the characters the model's inputs are written in, in code-point order
Ascii == " #&+,-./0123456789:=?@ABCDEFGHIJKLMNOPQRSTUVWXYZ_abcdefghijklmnopqrstuvwxyz|~"
UpperAZ == "ABCDEFGHIJKLMNOPQRSTUVWXYZ"
LowerAZ == "abcdefghijklmnopqrstuvwxyz"
Digits == {"0", "1", "2", "3", "4", "5", "6", "7", "8", "9"}

\* None where a str is expected, and where a number is expected
NoneS == "<None>"
NoneN == -1

\* bool(v) of a value that is a str or None
Truthy(v) == v # NoneS /\ v # ""

Ch(s, i) == SubSeq(s, i, i)
Ord(c) == CHOOSE i \in 1..Len(Ascii) : Ch(Ascii, i) = c

RECURSIVE StrLess(_, _)
\* a < b on str
StrLess(a, b) ==
    IF b = "" THEN FALSE
    ELSE IF a = "" THEN TRUE
    ELSE IF Head(a) = Head(b) THEN StrLess(Tail(a), Tail(b))
    ELSE Ord(Head(a)) < Ord(Head(b))

RECURSIVE sorted(_)
\* sorted(S) of a set of str
sorted(S) ==
    IF S = {} THEN <<>>
    ELSE LET m == CHOOSE x \in S : \A y \in S : y = x \/ StrLess(x, y)
         IN <<m>> \o sorted(S \ {m})

\* the elements of a list, as a set
set(seq) == {seq[i] : i \in 1..Len(seq)}

LowerCh(c) ==
    IF \E i \in 1..26 : Ch(UpperAZ, i) = c
    THEN Ch(LowerAZ, CHOOSE i \in 1..26 : Ch(UpperAZ, i) = c)
    ELSE c
UpperCh(c) ==
    IF \E i \in 1..26 : Ch(LowerAZ, i) = c
    THEN Ch(UpperAZ, CHOOSE i \in 1..26 : Ch(LowerAZ, i) = c)
    ELSE c

RECURSIVE lower(_)
\* s.lower(), character by character (the text halved at each step)
lower(s) ==
    IF Len(s) <= 1 THEN LowerCh(s)
    ELSE lower(SubSeq(s, 1, Len(s) \div 2)) \o lower(SubSeq(s, Len(s) \div 2 + 1, Len(s)))
RECURSIVE upper(_)
upper(s) ==
    IF Len(s) <= 1 THEN UpperCh(s)
    ELSE upper(SubSeq(s, 1, Len(s) \div 2)) \o upper(SubSeq(s, Len(s) \div 2 + 1, Len(s)))

\* s.find(t) + 1: the first position at which t occurs in s, 0 when none
Find(s, t) ==
    LET at == {i \in 1..(Len(s) - Len(t) + 1) : SubSeq(s, i, i + Len(t) - 1) = t}
    IN IF at = {} THEN 0 ELSE CHOOSE i \in at : \A j \in at : i <= j

\* t in s
contains(s, t) == Find(s, t) # 0
endswith(s, t) == Len(t) <= Len(s) /\ SubSeq(s, Len(s) - Len(t) + 1, Len(s)) = t
startswith(s, t) == Len(t) <= Len(s) /\ SubSeq(s, 1, Len(t)) = t

RECURSIVE rstrip(_, _)
\* s.rstrip(chars), chars a set of characters
rstrip(s, chars) ==
    IF s # "" /\ Ch(s, Len(s)) \in chars THEN rstrip(SubSeq(s, 1, Len(s) - 1), chars) ELSE s
RECURSIVE lstrip(_, _)
lstrip(s, chars) ==
    IF s # "" /\ Head(s) \in chars THEN lstrip(Tail(s), chars) ELSE s
\* s.strip()
strip(s) == lstrip(rstrip(s, {" "}), {" "})

\* s.split(sep, 1)[0] and the rest after the first sep ("" when sep is absent)
Before(s, sep) == IF contains(s, sep) THEN SubSeq(s, 1, Find(s, sep) - 1) ELSE s
After(s, sep) ==
    IF contains(s, sep) THEN SubSeq(s, Find(s, sep) + Len(sep), Len(s)) ELSE ""

RECURSIVE split(_, _)
\* s.split(sep)
split(s, sep) ==
    IF contains(s, sep) THEN <<Before(s, sep)>> \o split(After(s, sep), sep) ELSE <<s>>

RECURSIVE join(_, _)
\* sep.join(parts)
join(sep, parts) ==
    IF parts = <<>> THEN ""
    ELSE IF Len(parts) = 1 THEN parts[1]
    ELSE parts[1] \o sep \o join(sep, Tail(parts))

\* list(dict.fromkeys(seq)): first occurrences, in order
RECURSIVE fromkeys(_)
fromkeys(seq) ==
    IF seq = <<>> THEN <<>>
    ELSE LET init == fromkeys(SubSeq(seq, 1, Len(seq) - 1))
             x == seq[Len(seq)]
         IN IF x \in set(init) THEN init ELSE Append(init, x)

\* str(n) of a natural number
RECURSIVE str(_)
str(n) ==
    IF n < 10 THEN Ch("0123456789", n + 1)
    ELSE str(n \div 10) \o Ch("0123456789", (n % 10) + 1)

\* urlparse(u).netloc: what follows "//" up to the next "/", "?" or "#",
\* after a scheme if the text before the first ":" is one
IsScheme(t) ==
    /\ t # ""
    /\ LowerCh(Head(t)) \in set(<<"a","b","c","d","e","f","g","h","i","j","k","l","m",
                                   "n","o","p","q","r","s","t","u","v","w","x","y","z">>)
    /\ \A i \in 1..Len(t) :
          \/ LowerCh(Ch(t, i)) \in {Ch(LowerAZ, k) : k \in 1..26}
          \/ Ch(t, i) \in Digits \cup {"+", "-", "."}
netloc(u) ==
    LET rest == IF contains(u, ":") /\ IsScheme(Before(u, ":")) THEN After(u, ":") ELSE u
    IN IF startswith(rest, "//")
       THEN Before(Before(Before(SubSeq(rest, 3, Len(rest)), "/"), "?"), "#")
       ELSE ""

(***************************************************************************)
(* Bounds of the model.                                                    *)
(***************************************************************************)
\* seconds per tick of the model clock
TickSec == 30
\* most ticks one HTTP call or one sleep may take
MaxStep == 1

(***************************************************************************)
(* Program constants.                                                      *)
(***************************************************************************)
GOOGLE_ACTOR_ID == "apify~google-search-scraper"
WEB_SCRAPER_ACTOR_ID == "apify~web-scraper"
GOOGLE_MAPS_ACTOR_ID == "compass~crawler-google-places"
SALES_NAV_ACTOR_ID == "muhammad_usama~Apify-Sales-Navifgator"
FALLBACK_SALES_NAV_ACTOR_ID == "muhammad_usama~Apify-Sales-Navigator"

GoogleTimeoutSec == 120
ScrapeTimeoutSec == 240
MapsTimeoutSec == 180
LeadTimeoutSec == 300

Flows == {"google_search", "web_scrape", "google_maps_enrich", "call_apify_actor"}

terminal == {"SUCCEEDED", "FAILED", "ABORTED", "TIMED-OUT", "TIMED_OUT"}
\* what get_run can report: the terminal values, two running values, and a
\* response without a status field ("None")
Statuses == terminal \cup {"READY", "RUNNING", "None"}

\* response texts of a rejected start_actor (HTTP status >= 400)
ErrTexts == {"Actor not found", "Invalid act id", "Input is not valid"}

\* the target-level test with its second phrase left out
IsTargetLevelNotFoundOnly(text) == contains(lower(text), "not found")

\* "not found" in str(e).lower() or "invalid act id" in str(e).lower(); the
\* "Failed to start actor <id>: " that precedes the response text in str(e)
\* holds neither phrase for the two actor ids used
IsTargetLevel(text) ==
    contains(lower(text), "not found") \/ contains(lower(text), "invalid act id")

NoErr == [kind |-> "none", status |-> "none", text |-> "none", wrapped |-> FALSE]
MkErr(k, s, t) == [kind |-> k, status |-> s, text |-> t, wrapped |-> FALSE]

\* a third payload variant in every list
NumBodiesThree(f) == 3

\* number of payload variants each flow holds
NumBodies(f) == IF f = "web_scrape" THEN 1 ELSE 2

PrimaryActor(f) ==
    CASE f = "google_search" -> GOOGLE_ACTOR_ID
      [] f = "web_scrape" -> WEB_SCRAPER_ACTOR_ID
      [] f = "google_maps_enrich" -> GOOGLE_MAPS_ACTOR_ID
      [] OTHER -> SALES_NAV_ACTOR_ID

timeout_sec(f) ==
    CASE f = "google_search" -> GoogleTimeoutSec
      [] f = "web_scrape" -> ScrapeTimeoutSec
      [] f = "google_maps_enrich" -> MapsTimeoutSec
      [] OTHER -> LeadTimeoutSec

\* the timeout test with the comparison slipped to >=
TimedOutAtBudget(el, f) == el * TickSec >= timeout_sec(f)

\* (time.time() - start) > timeout_sec
TimedOut(el, f) == el * TickSec > timeout_sec(f)

JobInit ==
    /\ flow \in Flows
    /\ pc = "submit1"
    /\ pv = 1
    /\ attempts = <<>>
    /\ runs = <<>>
    /\ run = 0
    /\ status = "unset"
    /\ dsid = 0
    /\ elapsed = 0
    /\ polled = 0
    /\ timeouts = {}
    /\ fetches = <<>>
    /\ outcome = "none"
    /\ result = "none"
    /\ err = NoErr
    /\ last_err = NoErr

JobIdle ==
    /\ flow = "none"
    /\ pc = "idle"
    /\ pv = 1
    /\ attempts = <<>>
    /\ runs = <<>>
    /\ run = 0
    /\ status = "unset"
    /\ dsid = 0
    /\ elapsed = 0
    /\ polled = 0
    /\ timeouts = {}
    /\ fetches = <<>>
    /\ outcome = "none"
    /\ result = "none"
    /\ err = NoErr
    /\ last_err = NoErr

(***************************************************************************)
(* How a failure inside a flow ends the current attempt.  In               *)
(* call_apify_actor both the ApifyError handler and the two explicit       *)
(* `continue` branches record last_err and go on with the next payload     *)
(* variant; after the last variant the function raises, quoting last_err.  *)
(* In the other three flows the error goes to the caller.                  *)
(***************************************************************************)
\* last_err set once and then left alone
KeepFirst(old, e) == IF old = NoErr THEN e ELSE old

\* last_err = e
KeepLast(old, e) == e

Fail(e) ==
    IF flow = "call_apify_actor"
    THEN /\ last_err' = KeepLast(last_err, e)
         /\ IF pv < NumBodies(flow)
            THEN /\ pv' = pv + 1
                 /\ pc' = "submit1"
                 /\ UNCHANGED <<outcome, err>>
            ELSE /\ pv' = pv
                 /\ pc' = "done"
                 /\ outcome' = "raised"
                 /\ err' = [last_err' EXCEPT !.wrapped = TRUE]
    ELSE /\ pc' = "done"
         /\ outcome' = "raised"
         /\ err' = e
         /\ UNCHANGED <<pv, last_err>>

\* the binding lost: a run held from an earlier attempt stays in place
BoundRunStale(old, new) == IF old = 0 THEN new ELSE old

\* run = start_actor(...): the name run is bound to the run just started
BoundRun(old, new) == new

\* start_actor accepted: the run exists, and the wait for it starts
Accepted(actor, body) ==
    /\ attempts' = Append(attempts, [actor |-> actor, body |-> body, ok |-> TRUE, text |-> "ok"])
    /\ runs' = Append(runs, [actor |-> actor, body |-> body])
    /\ run' = BoundRun(run, Len(runs) + 1)
    /\ pc' = "poll"
    /\ elapsed' = 0
    /\ status' = "unset"
    /\ dsid' = 0
    /\ UNCHANGED <<flow, pv, polled, timeouts, fetches, outcome, result, err, last_err>>

Rejected(actor, body, text) ==
    attempts' = Append(attempts, [actor |-> actor, body |-> body, ok |-> FALSE, text |-> text])

(***************************************************************************)
(* The first start_actor of an attempt.  google_search and                 *)
(* google_maps_enrich answer any rejection with their fallback body;       *)
(* web_scrape lets it through; call_apify_actor tries the fallback actor   *)
(* on a target-level rejection and gives the variant up on any other.      *)
(***************************************************************************)
StartPrimary ==
    /\ pc = "submit1"
    /\ UNCHANGED notJobVars
    /\ LET actor == PrimaryActor(flow)
           body == IF flow = "call_apify_actor" THEN pv ELSE 1
       IN \/ Accepted(actor, body)
          \/ \E text \in ErrTexts :
                /\ Rejected(actor, body, text)
                /\ UNCHANGED <<flow, runs, run, status, dsid, elapsed, polled, timeouts,
                               fetches, result>>
                /\ IF flow \in {"google_search", "google_maps_enrich"}
                      \/ (flow = "call_apify_actor" /\ IsTargetLevel(text))
                   THEN /\ pc' = "submit2"
                        /\ UNCHANGED <<pv, outcome, err, last_err>>
                   ELSE Fail(MkErr("start", "none", text))

\* the second start_actor: fallback body on the same actor, or (in
\* call_apify_actor) the same payload on the fallback actor
StartFallback ==
    /\ pc = "submit2"
    /\ UNCHANGED notJobVars
    /\ LET actor == IF flow = "call_apify_actor"
                    THEN FALLBACK_SALES_NAV_ACTOR_ID ELSE PrimaryActor(flow)
           body == IF flow = "call_apify_actor" THEN pv ELSE 2
       IN \/ Accepted(actor, body)
          \/ \E text \in ErrTexts :
                /\ Rejected(actor, body, text)
                /\ UNCHANGED <<flow, runs, run, status, dsid, elapsed, polled, timeouts,
                               fetches, result>>
                /\ Fail(MkErr("start", "none", text))

(***************************************************************************)
(* wait_for_run_finished, one loop iteration in three steps: get_run,      *)
(* then the terminal test, then the timeout test, then the sleep.          *)
(***************************************************************************)
GetRun ==
    /\ pc = "poll"
    /\ UNCHANGED notJobVars
    /\ \E d \in 0..MaxStep :
          /\ elapsed' = elapsed + d
          /\ \/ \E s \in Statuses :
                   /\ status' = s
                   /\ dsid' \in (IF s = "SUCCEEDED" THEN {0, run} ELSE {0})
                   /\ pc' = "check"
                   /\ UNCHANGED <<pv, outcome, err, last_err>>
             \/ /\ UNCHANGED <<status, dsid>>
                /\ Fail(MkErr("getrun", "none", "Failed to get run"))
    /\ polled' = run
    /\ UNCHANGED <<flow, attempts, runs, run, timeouts, fetches, result>>

WaitReturn ==
    /\ pc = "check"
    /\ UNCHANGED notJobVars
    /\ status \in terminal
    /\ pc' = "after"
    /\ UNCHANGED <<flow, pv, attempts, runs, run, status, dsid, elapsed, polled,
                   timeouts, fetches, outcome, result, err, last_err>>

\* the timeout test made whatever the status
PastTerminalTestAlways(s) == TRUE

\* `if status in terminal: return run` stands before the timeout test, so
\* the test is reached only by a status that is not terminal
PastTerminalTest(s) == s \notin terminal

WaitTimeout ==
    /\ pc = "check"
    /\ UNCHANGED notJobVars
    /\ PastTerminalTest(status)
    /\ TimedOut(elapsed, flow)
    /\ timeouts' = timeouts \cup {[run |-> run, at |-> elapsed, status |-> status]}
    /\ Fail(MkErr("timeout", status, "timed out"))
    /\ UNCHANGED <<flow, attempts, runs, run, status, dsid, elapsed, polled,
                   fetches, result>>

WaitSleep ==
    /\ pc = "check"
    /\ UNCHANGED notJobVars
    /\ status \notin terminal
    /\ ~TimedOut(elapsed, flow)
    /\ \E d \in 0..MaxStep : elapsed' = elapsed + d
    /\ pc' = "poll"
    /\ UNCHANGED <<flow, pv, attempts, runs, run, status, dsid, polled,
                   timeouts, fetches, outcome, result, err, last_err>>

(***************************************************************************)
(* After the wait returned a run.                                          *)
(***************************************************************************)
\* what a flow does with a run whose status is not SUCCEEDED
RunNotSucceeded ==
    /\ pc = "after"
    /\ UNCHANGED notJobVars
    /\ status # "SUCCEEDED"
    /\ IF flow = "google_maps_enrich"
       THEN /\ pc' = "done"
            /\ outcome' = "returned"
            /\ result' = "empty"
            /\ UNCHANGED <<pv, err, last_err>>
       ELSE /\ Fail(MkErr("status", status, "run status"))
            /\ UNCHANGED result
    /\ UNCHANGED <<flow, attempts, runs, run, status, dsid, elapsed, polled,
                   timeouts, fetches>>

\* call_apify_actor alone tests the dataset id before fetching
NoDataset ==
    /\ pc = "after"
    /\ UNCHANGED notJobVars
    /\ status = "SUCCEEDED"
    /\ flow = "call_apify_actor"
    /\ dsid = 0
    /\ Fail(MkErr("nods", "none", "No defaultDatasetId in actor run response."))
    /\ UNCHANGED <<flow, attempts, runs, run, status, dsid, elapsed, polled,
                   timeouts, fetches, result>>

\* dataset_items(ds_id): a dataset id the service knows yields its items
\* or an HTTP error; the id None names no dataset
FetchDataset ==
    /\ pc = "after"
    /\ UNCHANGED notJobVars
    /\ status = "SUCCEEDED"
    /\ flow = "call_apify_actor" => dsid # 0
    /\ fetches' = Append(fetches, [run |-> run, ds |-> dsid, status |-> status])
    /\ \/ /\ dsid # 0
          /\ result' \in {"empty", "items"}
          /\ pc' = "done"
          /\ outcome' = "returned"
          /\ UNCHANGED <<pv, err, last_err>>
       \/ /\ Fail(MkErr("dataset", "none", "Failed to fetch dataset"))
          /\ UNCHANGED result
    /\ UNCHANGED <<flow, attempts, runs, run, status, dsid, elapsed, polled, timeouts>>

JobNext ==
    \/ StartPrimary
    \/ StartFallback
    \/ GetRun
    \/ WaitReturn
    \/ WaitTimeout
    \/ WaitSleep
    \/ RunNotSucceeded
    \/ NoDataset
    \/ FetchDataset

(***************************************************************************)
(* Properties of the job flows.                                            *)
(***************************************************************************)
LastAttempt == attempts[Len(attempts)]

\* C1: variant short-circuit. Once start_actor has accepted a variant, no
\* later variant is submitted in the same call: an accepted attempt is the
\* last attempt, whatever becomes of its run.
C1_VariantShortCircuit ==
    \A i \in 1..Len(attempts) : attempts[i].ok => i = Len(attempts)

\* the primary target was rejected as not found / invalid and the fallback
\* target then accepted the same payload
FallbackAccepted ==
    /\ flow = "call_apify_actor"
    /\ Len(attempts) >= 2
    /\ LastAttempt.ok
    /\ LastAttempt.actor = FALLBACK_SALES_NAV_ACTOR_ID
    /\ LET prev == attempts[Len(attempts) - 1]
       IN /\ ~prev.ok
          /\ prev.actor = SALES_NAV_ACTOR_ID
          /\ prev.body = LastAttempt.body
          /\ IsTargetLevel(prev.text)

\* C2: target fallback binding. After the fallback target accepted, the run
\* held, every run polled from then on and the run whose dataset is fetched
\* are the run the fallback submission returned, a run of the fallback
\* target and never one of the primary target.
C2_FallbackBinding ==
    FallbackAccepted =>
        /\ run = Len(runs)
        /\ runs[run].actor = FALLBACK_SALES_NAV_ACTOR_ID
        /\ runs[run].body = LastAttempt.body
        /\ pc \in {"check", "after"} => polled = run
        /\ (pc = "done" /\ outcome = "returned") =>
              fetches[Len(fetches)].run = run

C2_Witness ==
    /\ FallbackAccepted
    /\ pc = "done"
    /\ outcome = "returned"
    /\ result = "items"
    /\ Len(runs) = 2

C10_RunFailureSurfaced ==
    (pc = "done" /\ status \in terminal \ {"SUCCEEDED"}) =>
        /\ outcome = "raised"
        /\ err.status = status

\* C11: results are fetched only from a succeeded run with a result-set
\* reference. Every dataset_items call was made after the polled run reported
\* SUCCEEDED and with the defaultDatasetId that run carried; a succeeded run
\* without one leads to no fetch.
C11_FetchNeedsDataset ==
    \A i \in 1..Len(fetches) :
        /\ fetches[i].status = "SUCCEEDED"
        /\ fetches[i].ds # 0

\* the response texts the claim counts as target-level rejections
SaysTargetLevel(text) == text \in {"Actor not found", "Invalid act id"}

\* C12: fallback ordering in call_apify_actor. A submission goes to the
\* fallback target exactly when the submission before it was the primary
\* target rejecting the same payload at target level; a target-level rejection
\* of the primary is followed by the fallback with the same payload, and any
\* other rejection of the primary by the next payload on the primary.
C12_FallbackOrdering ==
    flow = "call_apify_actor" =>
        \A i \in 1..Len(attempts) :
            LET a == attempts[i]
                primaryRejected == a.actor = SALES_NAV_ACTOR_ID /\ ~a.ok
            IN /\ a.actor = FALLBACK_SALES_NAV_ACTOR_ID <=>
                    /\ i > 1
                    /\ attempts[i - 1].actor = SALES_NAV_ACTOR_ID
                    /\ ~attempts[i - 1].ok
                    /\ SaysTargetLevel(attempts[i - 1].text)
                    /\ attempts[i - 1].body = a.body
               /\ (primaryRejected /\ SaysTargetLevel(a.text)) =>
                    IF i < Len(attempts)
                    THEN /\ attempts[i + 1].actor = FALLBACK_SALES_NAV_ACTOR_ID
                         /\ attempts[i + 1].body = a.body
                    ELSE pc = "submit2"
               /\ (primaryRejected /\ ~SaysTargetLevel(a.text) /\ i < Len(attempts)) =>
                    /\ attempts[i + 1].actor = SALES_NAV_ACTOR_ID
                    /\ attempts[i + 1].body = a.body + 1

C12_Witness ==
    /\ flow = "call_apify_actor"
    /\ Len(attempts) = 3
    /\ attempts[1].text = "Input is not valid"
    /\ attempts[2].actor = SALES_NAV_ACTOR_ID
    /\ attempts[2].text = "Invalid act id"
    /\ attempts[3].actor = FALLBACK_SALES_NAV_ACTOR_ID

\* C13: the last cause is reported. When call_apify_actor raises after its
\* loop, both payload variants have been tried and the error raised quotes
\* the failure of the last combination attempted: the rejection text of the
\* last submission if that was rejected, else what became of the last run.
C13_LastCauseReported ==
    (flow = "call_apify_actor" /\ pc = "done" /\ outcome = "raised") =>
        /\ \E i \in 1..Len(attempts) : attempts[i].body = 1
        /\ LastAttempt.body = 2
        /\ err.wrapped
        /\ IF ~LastAttempt.ok
           THEN /\ err.kind = "start"
                /\ err.text = LastAttempt.text
           ELSE /\ run = Len(runs)
                /\ err.kind \in {"getrun", "timeout", "status", "nods", "dataset"}
                /\ err.kind = "timeout" =>
                      /\ err.status = status
                      /\ \E t \in timeouts : t.run = run /\ t.status = status
                /\ err.kind = "status" =>
                      /\ err.status = status
                      /\ status \in terminal \ {"SUCCEEDED"}
                /\ err.kind = "nods" => (status = "SUCCEEDED" /\ dsid = 0)
                /\ err.kind = "dataset" =>
                      (fetches # <<>> /\ fetches[Len(fetches)].run = run)

C13_Witness ==
    /\ flow = "call_apify_actor"
    /\ pc = "done"
    /\ outcome = "raised"
    /\ Len(attempts) = 2
    /\ attempts[1].text = "Input is not valid"
    /\ LastAttempt.ok
    /\ err.kind = "status"
    /\ err.status = "ABORTED"

\* C14: a timed-out run is not polled further. While a flow is in a wait,
\* the run it polls, and the run it polled last, is none of the runs for
\* which the timeout error was raised.
C14_TimedOutNotPolled ==
    \A t \in timeouts :
        /\ pc \in {"poll", "check", "after"} => run # t.run
        /\ pc \in {"check", "after"} => polled # t.run

C14_Witness ==
    /\ flow = "call_apify_actor"
    /\ pc = "check"
    /\ polled = 2
    /\ \E t \in timeouts : t.run = 1

\* C15: bounded retry and termination. Every call ends, returning or raising;
\* call_apify_actor makes at most 4 submissions (2 payload variants, each on
\* the primary and the fallback target) and waits for at most 2 runs.
C15_BoundedTermination ==
    /\ [](flow = "call_apify_actor" => (Len(attempts) <= 4 /\ Len(runs) <= 2))
    /\ <>(pc = "done" /\ outcome \in {"returned", "raised"})

C15_Witness ==
    /\ flow = "call_apify_actor"
    /\ pc = "done"
    /\ outcome = "raised"
    /\ Len(attempts) = 4

\* the five status names the wait treats as final
FinalStatusNames == {"SUCCEEDED", "FAILED", "ABORTED", "TIMED-OUT", "TIMED_OUT"}

\* C28: a terminal status has precedence over the timeout. The wait is left
\* (by a return or by the timeout error) only after a status was fetched for
\* the run; from the moment a fetched status is one of the five final names
\* the next step hands the run back with no further fetch, no sleep and no
\* timeout, however much time has elapsed; and the timeout error is raised
\* only on a fetched status that is not final.
C28_TerminalPrecedence ==
    [][/\ (pc = "check" /\ status \in FinalStatusNames) =>
             /\ pc' = "after"
             /\ UNCHANGED <<status, elapsed, polled, timeouts, err, last_err, outcome>>
       /\ (pc' = "after" /\ pc # "after") => (polled = run /\ status \in FinalStatusNames)
       /\ timeouts' # timeouts =>
             /\ pc = "check"
             /\ polled = run
             /\ status \notin FinalStatusNames
             /\ pc' # "after"]_vars

\* a run handed back on a terminal status fetched after the budget had passed
C28_Witness ==
    /\ pc = "after"
    /\ polled = run
    /\ status \in FinalStatusNames
    /\ TimedOut(elapsed, flow)

(***************************************************************************)
(* The normalisation helpers of extractors.py.  The file defines           *)
(* guess_company_name, pick_official_site, _root_token,                    *)
(* _filter_emails_by_domain, _clean_phone, _merge_and_clean_phones and     *)
(* _pick_linkedin twice; Python binds each name to its later definition,   *)
(* which is the one assemble_lead_record calls and the one modelled here.  *)
(***************************************************************************)
\* u[:-1] if u and u.endswith("-") else u
_strip_trailing_dash(u) ==
    IF u # "" /\ endswith(u, "-") THEN SubSeq(u, 1, Len(u) - 1) ELSE u

_clean_linkedin(u) ==
    IF ~Truthy(u) THEN NoneS
    ELSE LET a == rstrip(Before(u, "?"), {"/"})
             b == IF endswith(a, "/posts")
                  THEN rstrip(SubSeq(a, 1, Len(a) - 6), {"/"})
                  ELSE a
         IN _strip_trailing_dash(b)

IsCompanyPage(u) == contains(u, "/company/") /\ ~contains(u, "/posts")

_pick_linkedin(urls) ==
    IF urls = <<>> THEN NoneS
    ELSE LET companies == SelectSeq(urls, IsCompanyPage)
         IN IF companies # <<>> THEN companies[1] ELSE urls[1]

_root_token(host) ==
    IF ~Truthy(host) THEN NoneS
    ELSE LET parts == split(lower(host), ".")
         IN IF Len(parts) >= 2 THEN parts[Len(parts) - 1] ELSE parts[1]

\* the token looked for in the whole address instead of its domain
KeepsEmailAnywhere(e, token) == contains(e, "@") /\ contains(lower(e), token)

\* the test of one address in _filter_emails_by_domain's loop
KeepsEmail(e, token) == contains(e, "@") /\ contains(lower(After(e, "@")), token)

_filter_emails_by_domain(emails, official_url) ==
    IF emails = <<>> THEN <<>>
    ELSE IF ~Truthy(official_url) THEN sorted(set(emails))
    ELSE LET token == _root_token(netloc(official_url))
         IN IF ~Truthy(token) THEN sorted(set(emails))
            ELSE sorted({e \in set(emails) : KeepsEmail(e, token)})

RECURSIVE KeepChars(_, _)
\* re.sub of every character outside `keep` by ""
KeepChars(s, keep) ==
    IF s = "" THEN ""
    ELSE (IF Head(s) \in keep THEN Head(s) ELSE "") \o KeepChars(Tail(s), keep)

\* the range test with both ends excluded
BadDigitCountStrict(dcount) == dcount <= 8 \/ dcount >= 15

\* dcount < 8 or dcount > 15
BadDigitCount(dcount) == dcount < 8 \/ dcount > 15

_clean_phone(p) ==
    LET digits == KeepChars(p, Digits \cup {"+"})
        dcount == Len(KeepChars(digits, Digits))
    IN IF BadDigitCount(dcount) THEN NoneS ELSE digits

_merge_and_clean_phones(raws) ==
    sorted({_clean_phone(raws[i]) : i \in 1..Len(raws)} \ {NoneS, ""})

\* re.sub(r"\s*\|\s*.*$", "", cand): the text is cut where the blanks before
\* the first "|" begin
CutAtBar(s) == IF contains(s, "|") THEN rstrip(Before(s, "|"), {" "}) ELSE s

\* re.sub(r"\s*-\s*Home\s*$", "", c, flags=re.I)
CutHomeTail(c) ==
    LET t == rstrip(c, {" "})
        u == rstrip(SubSeq(t, 1, Len(t) - 4), {" "})
    IN IF endswith(lower(t), "home") /\ endswith(u, "-")
       THEN rstrip(SubSeq(u, 1, Len(u) - 1), {" "})
       ELSE c

\* what the loop of guess_company_name makes of one candidate
CleanName(cand) == CutHomeTail(strip(CutAtBar(cand)))

guess_company_name(site_name, title) ==
    IF Truthy(site_name) /\ CleanName(site_name) # "" THEN CleanName(site_name)
    ELSE IF Truthy(title) /\ CleanName(title) # "" THEN CleanName(title)
    ELSE IF Truthy(site_name) THEN site_name
    ELSE title

bad_hosts == <<"linkedin.com", "facebook.com", "instagram.com", "tripadvisor.",
               "booking.", "google.com", "maps.google">>

\* not any(b in (r.get("url") or "") for b in bad_hosts)
IsGoodResult(url) ==
    \A i \in 1..Len(bad_hosts) : ~contains(IF Truthy(url) THEN url ELSE "", bad_hosts[i])

\* google_results is modelled as the list of its results' url values
pick_official_site(results) ==
    IF results = <<>> THEN NoneS
    ELSE LET filtered == SelectSeq(results, IsGoodResult)
         IN IF filtered # <<>> THEN filtered[1] ELSE results[1]

CountryCodes == {"IN", "US", "GB", "AE", "SG", "DE", "FR", "ES", "IT", "CA", "AU"}
COUNTRY_CODE_MAP(code) ==
    CASE code = "IN" -> "India"
      [] code = "US" -> "United States"
      [] code = "GB" -> "United Kingdom"
      [] code = "AE" -> "United Arab Emirates"
      [] code = "SG" -> "Singapore"
      [] code = "DE" -> "Germany"
      [] code = "FR" -> "France"
      [] code = "ES" -> "Spain"
      [] code = "IT" -> "Italy"
      [] code = "CA" -> "Canada"
      [] code = "AU" -> "Australia"

_expand_country(val) ==
    IF ~Truthy(val) THEN ""
    ELSE LET v == strip(val)
         IN IF upper(v) \in CountryCodes THEN COUNTRY_CODE_MAP(upper(v)) ELSE v

\* any(x in text for x in words)
AnyIn(text, words) == \E w \in words : contains(text, w)

\* the rules with the software test put first
_classify_industry_software_first(category, schema) ==
    LET c == lower(IF Truthy(category) THEN category ELSE "")
        s == lower(IF Truthy(schema) THEN schema ELSE "")
        text == c \o " " \o s
    IN IF AnyIn(text, {"software", "it", "technology", "saas", "ai", "data"})
       THEN <<"Software/IT", "">>
       ELSE IF AnyIn(text, {"hotel", "resort", "lodging", "accommodation", "apartment", "stay", "hostel"})
       THEN (IF contains(text, "hotel") THEN <<"Hospitality", "Hotel">>
             ELSE IF contains(text, "resort") THEN <<"Hospitality", "Resort">>
             ELSE IF AnyIn(text, {"apartment", "accommodation", "stay", "hostel"})
                  THEN <<"Hospitality", "Accommodation">>
             ELSE <<"Hospitality", "">>)
       ELSE IF AnyIn(text, {"restaurant", "cafe", "bar"})
            THEN <<"Food & Beverage", IF contains(text, "restaurant") THEN "Restaurant" ELSE "">>
       ELSE <<"", "">>

\* returns <<segment, type>>
_classify_industry(category, schema) ==
    LET c == lower(IF Truthy(category) THEN category ELSE "")
        s == lower(IF Truthy(schema) THEN schema ELSE "")
        text == c \o " " \o s
    IN IF AnyIn(text, {"hotel", "resort", "lodging", "accommodation", "apartment", "stay", "hostel"})
       THEN (IF contains(text, "hotel") THEN <<"Hospitality", "Hotel">>
             ELSE IF contains(text, "resort") THEN <<"Hospitality", "Resort">>
             ELSE IF AnyIn(text, {"apartment", "accommodation", "stay", "hostel"})
                  THEN <<"Hospitality", "Accommodation">>
             ELSE <<"Hospitality", "">>)
       ELSE IF AnyIn(text, {"software", "it", "technology", "saas", "ai", "data"})
            THEN <<"Software/IT", "">>
       ELSE IF AnyIn(text, {"restaurant", "cafe", "bar"})
            THEN <<"Food & Beverage", IF contains(text, "restaurant") THEN "Restaurant" ELSE "">>
       ELSE <<"", "">>

(***************************************************************************)
(* One call of a helper on an input drawn from a bounded set.              *)
(* _clean_linkedin is applied a second time to its own result.             *)
(***************************************************************************)
\* most suffix pieces appended to a link
MaxPieces == 3
\* most addresses in an email list
MaxEmails == 2

LinkBase == "https://www.linkedin.com/company/acme"
LinkPieces == {"/", "-", "/posts", "?trk=1"}

RECURSIVE Concat(_)
Concat(parts) == IF parts = <<>> THEN "" ELSE Head(parts) \o Concat(Tail(parts))

SeqsUpTo(S, n) == UNION {[1..k -> S] : k \in 0..n}

LinkInputs == {LinkBase \o Concat(ps) : ps \in SeqsUpTo(LinkPieces, MaxPieces)}

EmailPool == {"a@brand.com", "Sales@Brand.com", "x@brand-mail.org", "b@other.com",
              "brand@other.com", "c@shop.example.co.uk"}
SiteInputs == {NoneS, "https://www.brand.com", "http://Brand.com:8080/contact",
               "www.brand.com", "https://shop.example.co.uk/"}
EmailInputs == {<<es, site>> : es \in SeqsUpTo(EmailPool, MaxEmails), site \in SiteInputs}

\* most raw phone strings in one list
MaxPhones == 2

\* raw phone strings holding 0, 7, 8, 12, 15 and 16 digits
PhonePool == {"", "201-1000", "+2011-0009", "2011 000", "+44 20 7946 0958",
              "tel: +123 4567 8901 2345", "1234 5678 9012 3456", "+1+2345678 ext"}
PhoneLists == SeqsUpTo(PhonePool, MaxPhones)

\* map categories and the industry types the row loop can have set
CategoryTexts == {NoneS, "", "Hotel software", "Software restaurant", "Italian restaurant",
                  "Cafe", "Resort bar", "Data stay", "Lodging", "Wine Bar", "Bakery",
                  "SaaS vendor", "Serviced apartment"}
SchemaTexts == {"", "Hotel", "Resort", "Organization"}
ClassifyInputs == {<<c, t>> : c \in CategoryTexts, t \in SchemaTexts}

UtilFns == {"_clean_linkedin", "_filter_emails_by_domain", "_clean_phone",
            "_merge_and_clean_phones", "_classify_industry"}

UtilInit ==
    /\ ufn \in UtilFns
    /\ uarg \in (CASE ufn = "_clean_linkedin" -> LinkInputs
                   [] ufn = "_filter_emails_by_domain" -> EmailInputs
                   [] ufn = "_clean_phone" -> PhonePool
                   [] ufn = "_merge_and_clean_phones" -> PhoneLists
                   [] OTHER -> ClassifyInputs)
    /\ uret = <<>>

UtilIdle ==
    /\ ufn = "none"
    /\ uarg = "none"
    /\ uret = <<>>

CallCleanLinkedin ==
    /\ ufn = "_clean_linkedin"
    /\ Len(uret) < 2
    /\ uret' = Append(uret, _clean_linkedin(IF uret = <<>> THEN uarg ELSE uret[Len(uret)]))
    /\ UNCHANGED <<ufn, uarg>>
    /\ UNCHANGED notUtilVars

CallFilterEmails ==
    /\ ufn = "_filter_emails_by_domain"
    /\ uret = <<>>
    /\ uret' = <<_filter_emails_by_domain(uarg[1], uarg[2])>>
    /\ UNCHANGED <<ufn, uarg>>
    /\ UNCHANGED notUtilVars

CallCleanPhone ==
    /\ ufn = "_clean_phone"
    /\ uret = <<>>
    /\ uret' = <<_clean_phone(uarg)>>
    /\ UNCHANGED <<ufn, uarg>>
    /\ UNCHANGED notUtilVars

CallMergePhones ==
    /\ ufn = "_merge_and_clean_phones"
    /\ uret = <<>>
    /\ uret' = <<_merge_and_clean_phones(uarg)>>
    /\ UNCHANGED <<ufn, uarg>>
    /\ UNCHANGED notUtilVars

CallClassifyIndustry ==
    /\ ufn = "_classify_industry"
    /\ uret = <<>>
    /\ uret' = <<_classify_industry(uarg[1], uarg[2])>>
    /\ UNCHANGED <<ufn, uarg>>
    /\ UNCHANGED notUtilVars

UtilNext ==
    \/ CallCleanLinkedin
    \/ CallFilterEmails
    \/ CallCleanPhone
    \/ CallMergePhones
    \/ CallClassifyIndustry

(***************************************************************************)
(* Company candidates.  validate_companies exists twice: in                *)
(* person_prospect.py (the one app.py imports) and in                      *)
(* perplexity-propsecting/prospect.py (which records rejection reasons).   *)
(* A candidate is the dict parse_companies builds.  A revenue is held in   *)
(* millionths of a million (dollars), so that /1000 and *1000 are exact.   *)
(***************************************************************************)
\* 0.5 and 50 (millions), in dollars
min_revenue_m == 500000
max_revenue_m == 50000000
min_employees == 100
max_employees == 5000

excluded_brands == {"accorhotels", "accor", "airbnb", "booking.com", "expedia", "marriott",
                    "hilton", "hyatt", "ihg", "intercontinental", "radisson", "wyndham",
                    "groupe barriere", "barriere", "pierre & vacances",
                    "pierre et vacances"}

DigitVal(c) == CHOOSE d \in 0..9 : Ch("0123456789", d + 1) = c

RECURSIVE DigitsValue(_)
\* the number a string of digits writes ("" gives 0)
DigitsValue(t) ==
    IF t = "" THEN 0
    ELSE DigitsValue(SubSeq(t, 1, Len(t) - 1)) * 10 + DigitVal(Ch(t, Len(t)))

\* int(t) of a string of digits raises ValueError on ""
IntRaises(t) == t = ""

\* float(t) of a string of digits and dots raises ValueError unless t holds
\* a digit and at most one dot
FloatRaises(t) ==
    \/ KeepChars(t, Digits) = ""
    \/ Len(KeepChars(t, {"."})) > 1

\* float(t), in thousandths (the inputs carry at most three decimals)
FloatMilli(t) ==
    LET frac == SubSeq(After(t, ".") \o "000", 1, 3)
    IN DigitsValue(Before(t, ".")) * 1000 + DigitsValue(frac)

\* ---- person_prospect.validate_companies ----
\* int(re.sub(r"[^\d]", "", c["employees"].split("-")[0]))
EmpDigits(c) == KeepChars(Before(c.employees, "-"), Digits)
\* float(re.sub(r"[^\d.]", "", c["revenue"]))
RevChars(c) == KeepChars(c.revenue, Digits \cup {"."})

\* 100 <= emp <= 5000 and 0.5 <= rev <= 50, unless the try block raised
Passes(c) ==
    /\ ~IntRaises(EmpDigits(c))
    /\ ~FloatRaises(RevChars(c))
    /\ min_employees <= DigitsValue(EmpDigits(c))
    /\ DigitsValue(EmpDigits(c)) <= max_employees
    /\ min_revenue_m <= FloatMilli(RevChars(c)) * 1000
    /\ FloatMilli(RevChars(c)) * 1000 <= max_revenue_m

\* a rejected candidate lost instead of appended
RejectDropped(rejected, entry) == rejected

\* rejected.append(entry)
Reject(rejected, entry) == Append(rejected, entry)

RECURSIVE validate_companies(_)
\* returns <<valid, rejected>>
validate_companies(companies) ==
    IF companies = <<>> THEN <<<<>>, <<>>>>
    ELSE LET before == validate_companies(SubSeq(companies, 1, Len(companies) - 1))
             c == companies[Len(companies)]
         IN IF Passes(c) THEN <<Append(before[1], c), before[2]>>
            ELSE <<before[1], Reject(before[2], c)>>

\* s.replace(t, "")
RemoveAll(s, t) == join("", split(s, t))

\* ---- prospect.validate_companies ----
\* the index at which re.search(r'\$?([\d.]+)\s*([KMB])?', s) finds group 1,
\* 0 when there is no match
RevMatchAt(s) ==
    LET at == {i \in 1..Len(s) : Ch(s, i) \in Digits \cup {"."}}
    IN IF at = {} THEN 0 ELSE CHOOSE i \in at : \A j \in at : i <= j

RECURSIVE RunOf(_, _)
\* the longest prefix of s made of characters of `chars`
RunOf(s, chars) ==
    IF s # "" /\ Head(s) \in chars THEN Head(s) \o RunOf(Tail(s), chars) ELSE ""

\* group 1 and group 2 (the unit, NoneS when absent) of that match
RevGroup1(s) == RunOf(SubSeq(s, RevMatchAt(s), Len(s)), Digits \cup {"."})
RevGroup2(s) ==
    LET rest == lstrip(SubSeq(s, RevMatchAt(s) + Len(RevGroup1(s)), Len(s)), {" "})
    IN IF rest # "" /\ Head(rest) \in {"K", "M", "B"} THEN Head(rest) ELSE NoneS

\* the revenue in dollars: value / 1000 for K, * 1000 for B
RevenueValue(s) ==
    LET unit == IF RevGroup2(s) = NoneS THEN "M" ELSE RevGroup2(s)
        milli == FloatMilli(RevGroup1(s))
    IN CASE unit = "K" -> milli
         [] unit = "B" -> milli * 1000000
         [] OTHER -> milli * 1000

\* the reasons of the revenue check; the amounts the texts quote are left out
RevenueReasons(c) ==
    IF RevMatchAt(c.revenue) = 0 THEN <<>>
    ELSE IF FloatRaises(RevGroup1(c.revenue)) THEN <<"Unable to parse revenue">>
    ELSE IF RevenueValue(c.revenue) > max_revenue_m THEN <<"Revenue exceeds max">>
    ELSE IF RevenueValue(c.revenue) < min_revenue_m THEN <<"Revenue below min">>
    ELSE <<>>

\* the reasons of the employee check
EmployeeReasons(c) ==
    LET employees_str == RemoveAll(c.employees, ",")
        emp_parts == split(employees_str, "-")
        lo == KeepChars(emp_parts[1], Digits)
        hi == KeepChars(emp_parts[2], Digits)
        one == KeepChars(employees_str, Digits)
    IN IF contains(employees_str, "-")
       THEN (IF IntRaises(lo) \/ IntRaises(hi) THEN <<"Unable to parse employee count">>
             ELSE IF DigitsValue(hi) > max_employees THEN <<"Employee count exceeds max">>
             ELSE IF DigitsValue(lo) < min_employees THEN <<"Employee count below min">>
             ELSE <<>>)
       ELSE (IF IntRaises(one) THEN <<"Unable to parse employee count">>
             ELSE IF DigitsValue(one) > max_employees THEN <<"Employee count exceeds max">>
             ELSE IF DigitsValue(one) < min_employees THEN <<"Employee count below min">>
             ELSE <<>>)

BrandReasons(c) ==
    IF \E b \in excluded_brands : contains(lower(c.company), b)
    THEN <<"Known large enterprise/Fortune 500 brand">>
    ELSE <<>>

rejection_reasons(c) == BrandReasons(c) \o RevenueReasons(c) \o EmployeeReasons(c)

RECURSIVE validate_companies_with_reasons(_)
\* prospect.py's validate_companies; returns <<valid, rejected>>
validate_companies_with_reasons(companies) ==
    IF companies = <<>> THEN <<<<>>, <<>>>>
    ELSE LET before == validate_companies_with_reasons(SubSeq(companies, 1, Len(companies) - 1))
             c == companies[Len(companies)]
         IN IF rejection_reasons(c) = <<>> THEN <<Append(before[1], c), before[2]>>
            ELSE <<before[1],
                   Reject(before[2], c @@ [rejection_reasons |-> rejection_reasons(c)])>>

(***************************************************************************)
(* parse_companies, again in both files.  The text is split at the         *)
(* numbered headers; each block gives a name and five fields, every field  *)
(* found by a regular-expression search.  A search is modelled by the      *)
(* text that begins where its group 1 begins (NoneS when nothing matches). *)
(***************************************************************************)
\* \s, as far as the texts hold it
Space == {" ", "\n"}
NumChars == Digits \cup {".", ","}

RECURSIVE RunUntil(_, _)
\* the longest prefix of s free of the characters of `stops`
RunUntil(s, stops) ==
    IF s # "" /\ Head(s) \notin stops THEN Head(s) \o RunUntil(Tail(s), stops) ELSE ""

\* \.\s*\*\* at the start of b: the text after it, NoneS when none
AfterDot(b) ==
    IF startswith(b, ".") /\ startswith(lstrip(Tail(b), Space), "**")
    THEN SubSeq(lstrip(Tail(b), Space), 3, Len(lstrip(Tail(b), Space)))
    ELSE NoneS

\* \d+\.\s*\*\* at the start of a
AfterNumber(a, num) ==
    IF num = "" THEN NoneS ELSE AfterDot(SubSeq(a, Len(num) + 1, Len(a)))

\* what follows a match of ####\s*\d+\.\s*\*\* at the start of s, NoneS when
\* there is no match
AfterHeader(s) ==
    IF ~startswith(s, "####") THEN NoneS
    ELSE AfterNumber(lstrip(SubSeq(s, 5, Len(s)), Space),
                     RunOf(lstrip(SubSeq(s, 5, Len(s)), Space), Digits))

RECURSIVE SplitBlocks(_, _)
\* re.split(r'####\s*\d+\.\s*\*\*', text); cur is the piece gathered so far
SplitBlocks(text, cur) ==
    LET i == Find(text, "####")
    IN IF i = 0 THEN <<cur \o text>>
       ELSE IF AfterHeader(SubSeq(text, i, Len(text))) # NoneS
       THEN <<cur \o SubSeq(text, 1, i - 1)>>
            \o SplitBlocks(AfterHeader(SubSeq(text, i, Len(text))), "")
       ELSE SplitBlocks(SubSeq(text, i + 1, Len(text)), cur \o SubSeq(text, 1, i))

\* [^*\n]+ from the start of the block, then \*\*
NameRun(block, first) ==
    IF first # "" /\ startswith(SubSeq(block, Len(first) + 1, Len(block)), "**")
    THEN first ELSE NoneS

\* re.search(r'^([^*\n]+)\*\*', block): group 1, NoneS when there is no match
NameOf(block) == NameRun(block, RunUntil(block, {"*", "\n"}))

\* \s* ran to the end of the text, or to a character the group cannot begin
\* with: it gives back white space until the group can begin, which is at
\* the last white-space character that is not a newline
BackOff(rest) ==
    LET at == {k \in 1..(Len(rest) - Len(lstrip(rest, Space))) : Ch(rest, k) # "\n"}
    IN IF at = {} THEN NoneS
       ELSE SubSeq(rest, CHOOSE k \in at : \A j \in at : j <= k, Len(rest))

\* https?://[^\s\n]+ at the start of t; tl is t, folded under re.IGNORECASE
UrlAt(t, tl) ==
    IF startswith(tl, "https://")
    THEN (IF Len(t) > 8 /\ Ch(t, 9) \notin Space THEN t ELSE NoneS)
    ELSE IF startswith(tl, "http://")
    THEN (IF Len(t) > 7 /\ Ch(t, 8) \notin Space THEN t ELSE NoneS)
    ELSE NoneS

\* \$?([\d.,]+) at the start of t
AmountAt(t) ==
    IF t # "" /\ Head(t) = "$"
    THEN (IF Len(t) > 1 /\ Ch(t, 2) \in NumChars THEN Tail(t) ELSE NoneS)
    ELSE IF t # "" /\ Head(t) \in NumChars THEN t ELSE NoneS

\* the text from group 1 on, for each shape of pattern; rest is what follows
\* the colon and t is rest without its leading white space
\*   line    :\s*([^\n]+)          hq     :\s*([^\n*]+)
\*   money   :\s*\$?([^\n]+)       url    :\s*(https?://[^\s\n]+)
\*   count   :\s*([\d,\-]+)        amount :\s*\$?([\d.,]+)
GroupAt(rest, t, mode, ic) ==
    CASE mode = "line" -> IF t # "" THEN t ELSE BackOff(rest)
      [] mode = "hq" -> IF t # "" /\ Head(t) # "*" THEN t ELSE BackOff(rest)
      [] mode = "money" ->
           IF t = "" THEN BackOff(rest)
           ELSE IF Head(t) = "$" /\ Len(t) > 1 /\ Ch(t, 2) # "\n" THEN Tail(t)
           ELSE t
      [] mode = "url" -> UrlAt(t, IF ic THEN lower(SubSeq(t, 1, 8)) ELSE t)
      [] mode = "count" ->
           IF t # "" /\ Head(t) \in Digits \cup {",", "-"} THEN t ELSE NoneS
      [] OTHER -> AmountAt(t)

\* the colon that ends the label
AfterColon(rest1, mode, ic) ==
    IF ~startswith(rest1, ":") THEN NoneS
    ELSE GroupAt(Tail(rest1), lstrip(Tail(rest1), Space), mode, ic)

\* what follows a label; opt is the optional part of the label, e.g. " URL"
\* in Website(?: URL)?:, and ic is re.IGNORECASE
GroupFrom(rest0, opt, mode, ic) ==
    IF opt # "" /\ (IF ic THEN startswith(lower(SubSeq(rest0, 1, Len(opt))), lower(opt))
                    ELSE startswith(rest0, opt))
    THEN AfterColon(SubSeq(rest0, Len(opt) + 1, Len(rest0)), mode, ic)
    ELSE AfterColon(rest0, mode, ic)

\* the search goes on after the place i where the label stood in vain
RECURSIVE SearchAfter(_, _, _, _, _)
SearchOn(block, i, g, label, opt, mode, ic) ==
    IF g # NoneS THEN g
    ELSE SearchAfter(SubSeq(block, i + 1, Len(block)), label, opt, mode, ic)

SearchAt(block, i, label, opt, mode, ic) ==
    IF i = 0 THEN NoneS
    ELSE SearchOn(block, i, GroupFrom(SubSeq(block, i + Len(label), Len(block)), opt, mode, ic),
                  label, opt, mode, ic)

\* re.search of the label followed by the pattern: tried at each place the
\* label stands, leftmost first
SearchAfter(block, label, opt, mode, ic) ==
    SearchAt(block, IF ic THEN Find(lower(block), lower(label)) ELSE Find(block, label),
             label, opt, mode, ic)

\* a field left empty when its pattern does not match
FieldOrEmpty(g, value) == IF g = NoneS THEN "" ELSE value

\* x.group(1) if x else "Unknown"
FieldOr(g, value) == IF g = NoneS THEN "Unknown" ELSE value

\* group 1 of a search that ended at g: the run up to a stop character
Group1(g, stops) == FieldOr(g, RunUntil(g, stops))

\* ---- person_prospect.parse_companies ----
CandidateOf(block) ==
    [company |-> strip(NameOf(block)),
     website |-> Group1(SearchAfter(block, "Website", " URL", "url", FALSE), Space),
     revenue |-> Group1(SearchAfter(block, "Revenue", "", "money", FALSE), {"\n"}),
     headquarters |-> Group1(SearchAfter(block, "Headquarters", "", "line", FALSE), {"\n"}),
     employees |-> Group1(SearchAfter(block, "Employee", " Count", "line", FALSE), {"\n"}),
     source |-> Group1(SearchAfter(block, "Verified Source", "", "line", FALSE), {"\n"})]

\* ---- prospect.parse_companies ----
\* repr of the float that is `dollars` millionths (the inputs stay clear of
\* the values repr writes with an exponent)
FloatRepr(dollars) ==
    LET frac == rstrip(Tail(str(1000000 + (dollars % 1000000))), {"0"})
    IN str(dollars \div 1000000) \o "." \o (IF frac = "" THEN "0" ELSE frac)

\* \s*([KMB])?\s*\((?:Source|Crunchbase) at the start of a (lower case)
SourceNoteAt(a) ==
    LET b == IF a # "" /\ Head(a) \in {"k", "m", "b"} THEN lstrip(Tail(a), Space) ELSE a
    IN startswith(b, "(source") \/ startswith(b, "(crunchbase")

\* the matches of the third revenue pattern,
\* \$?([\d.,]+)\s*([KMB])?\s*\((?:Source|Crunchbase), by where group 1 begins
SourcedAt(hay) ==
    {i \in 1..Len(hay) :
        /\ Ch(hay, i) \in NumChars
        /\ SourceNoteAt(lstrip(SubSeq(hay, i + Len(RunOf(SubSeq(hay, i, Len(hay)), NumChars)),
                                     Len(hay)), Space))}

FirstFrom(block, at) ==
    IF at = {} THEN NoneS
    ELSE SubSeq(block, CHOOSE i \in at : \A j \in at : i <= j, Len(block))

\* the text from group 1 of the third pattern on
SourcedAmount(block) == FirstFrom(block, SourcedAt(lower(block)))

\* rev_num in dollars, then f"${rev_num}M"; or the text as found when float
\* raises
RevenueWritten(revenue_value, revenue_unit) ==
    IF FloatRaises(revenue_value) THEN "$" \o revenue_value \o revenue_unit
    ELSE "$" \o FloatRepr(CASE upper(revenue_unit) = "K" -> FloatMilli(revenue_value)
                            [] upper(revenue_unit) = "B" -> FloatMilli(revenue_value) * 1000000
                            [] OTHER -> FloatMilli(revenue_value) * 1000) \o "M"

\* group 2 or "M"; after is what follows group 1 and the white space
UnitOf(after) ==
    IF after # "" /\ upper(Head(after)) \in {"K", "M", "B"} THEN Head(after) ELSE "M"

RevenueOf(g, num) ==
    RevenueWritten(RemoveAll(num, ","),
                   UnitOf(lstrip(SubSeq(g, Len(num) + 1, Len(g)), Space)))

\* the revenue written in millions; g begins at group 1
RevenueInMillions(g) == FieldOr(g, RevenueOf(g, RunOf(g, NumChars)))

\* group 1 of an employee pattern, ([\d,\-]+)
CountOf(g) == FieldOr(g, RunOf(g, Digits \cup {",", "-"}))

\* the first pattern found if it matches, else the second
OrElse(g, other) == IF g # NoneS THEN g ELSE other

\* the first revenue pattern asks no more than "Revenue:", "$" and a
\* number; the second matches only where the first does
CandidateOfStrict(block) ==
    [company |-> strip(NameOf(block)),
     website |-> Group1(SearchAfter(block, "Website", " URL", "url", TRUE), Space),
     revenue |-> RevenueInMillions(OrElse(SearchAfter(block, "Revenue", "", "amount", TRUE),
                                          SourcedAmount(block))),
     headquarters |->
         strip(Group1(SearchAfter(block, "Headquarters", "", "hq", TRUE), {"\n", "*"})),
     employees |->
         CountOf(OrElse(SearchAfter(block, "Employee Count", "", "count", TRUE),
                        SearchAfter(block, "Employee", "s", "count", TRUE))),
     source |-> strip(Group1(SearchAfter(block, "Verified Source", "", "line", TRUE), {"\n"}))]

\* a block that gives no candidate: in person_prospect.py the name search
\* returns None and .group raises inside the bare try; in prospect.py the
\* block is skipped when the search fails or the name is empty
Skipped(block, strict) ==
    NameOf(block) = NoneS \/ (strict /\ strip(NameOf(block)) = "")

\* no name counted as seen
NeverSeen(results, name) == FALSE

\* name in seen
AlreadySeen(results, name) == \E i \in 1..Len(results) : results[i].company = name

RECURSIVE Gather(_, _, _)
\* the loop over blocks[1:]
Gather(blocks, results, strict) ==
    IF blocks = <<>> THEN results
    ELSE LET block == Head(blocks)
             c == IF strict THEN CandidateOfStrict(block) ELSE CandidateOf(block)
         IN IF Skipped(block, strict) \/ AlreadySeen(results, c.company)
            THEN Gather(Tail(blocks), results, strict)
            ELSE Gather(Tail(blocks), Append(results, c), strict)

parse_companies(text) == Gather(Tail(SplitBlocks(text, "")), <<>>, FALSE)
parse_companies_strict(text) == Gather(Tail(SplitBlocks(text, "")), <<>>, TRUE)

\* most pieces in one text
MaxBlocks == 2

\* pieces of a response: prose, numbered entries, and a malformed header
BlockPool ==
    {"Here are the companies:\n",
     "#### 1. **Acme**\n- Website: https://acme.example\n- Revenue: $25M\n- Headquarters: Lyon, France\n- Employee Count: 100-500\n- Verified Source: Annual report\n",
     "#### 2. **Acme**\n- Website URL: http://acme.test/x\n- Revenue: $500K\n- Employees: 50\n",
     "####3.** Bolt **\nrevenue: 2 B (Source: filing)\nHEADQUARTERS: **Nice**\nemployee count: 1,200 (Source)\n",
     "#### 4. ****\n- Revenue: $1M\n- Headquarters: Paris\n",
     "#### 5. ** **\n- Website: ftp://blank.example\n- Revenue:\n",
     "#### 6. **Dune**\n$75.5M (Crunchbase)\nRevenue: n/a\nHeadquarters:\nEmployee: \n",
     "### 7. **Zed**\n",
     "#### 8. **Cory**\n- Revenue: $1.2.3\n- Revenue: $1,500K\n- Verified Source:  ",
     "#### x. **Elba**\n"}

Texts == SeqsUpTo(BlockPool, MaxBlocks)

\* most candidates in one list
MaxCompanies == 2

Candidate(name, emp, rev) ==
    [company |-> name, website |-> "https://acme.example", revenue |-> rev,
     headquarters |-> "Lyon, France", employees |-> emp, source |-> "Unknown"]

CandidatePool == {Candidate("Acme", "100-500", "$25M"),
                  Candidate("Acme", "50", "25M"),
                  Candidate("Bolt", "200", "$75M"),
                  Candidate("Bolt", "50", "$75.5M"),
                  Candidate("Cory", "200", "Unknown"),
                  Candidate("Cory", "Unknown", "$25.0M"),
                  Candidate("Dune", "1,200", "$500K"),
                  Candidate("Dune", "200", "$2B"),
                  Candidate("Elba", "100-6000", "$25M"),
                  Candidate("Elba", "90-400", "0.5"),
                  Candidate("Accor Lodge", "5000", "50 M"),
                  Candidate("Fyn", "200-", "$1.2.3M")}

CandidateLists == SeqsUpTo(CandidatePool, MaxCompanies)

TextFns == {"person_prospect.validate_companies", "prospect.validate_companies"}
ParseFns == {"person_prospect.parse_companies", "prospect.parse_companies"}

\* the argument of a parse call is held as the pieces of the text
TextInit ==
    /\ ufn \in TextFns \cup ParseFns
    /\ uarg \in (IF ufn \in TextFns THEN CandidateLists ELSE Texts)
    /\ uret = <<>>

CallValidate ==
    /\ ufn = "person_prospect.validate_companies"
    /\ uret = <<>>
    /\ uret' = <<validate_companies(uarg)>>
    /\ UNCHANGED <<ufn, uarg>>
    /\ UNCHANGED notUtilVars

CallValidateWithReasons ==
    /\ ufn = "prospect.validate_companies"
    /\ uret = <<>>
    /\ uret' = <<validate_companies_with_reasons(uarg)>>
    /\ UNCHANGED <<ufn, uarg>>
    /\ UNCHANGED notUtilVars

CallParse ==
    /\ ufn = "person_prospect.parse_companies"
    /\ uret = <<>>
    /\ uret' = <<parse_companies(Concat(uarg))>>
    /\ UNCHANGED <<ufn, uarg>>
    /\ UNCHANGED notUtilVars

CallParseStrict ==
    /\ ufn = "prospect.parse_companies"
    /\ uret = <<>>
    /\ uret' = <<parse_companies_strict(Concat(uarg))>>
    /\ UNCHANGED <<ufn, uarg>>
    /\ UNCHANGED notUtilVars

TextNext ==
    \/ CallValidate
    \/ CallValidateWithReasons
    \/ CallParse
    \/ CallParseStrict

(***************************************************************************)
(* assemble_lead_record.  A scraped row, the map place and the search      *)
(* results are the dicts of the source with their fields; a number is a    *)
(* natural or NoneN, a text a str or NoneS.  An address is a dict, absent, *)
(* or (malformed) a plain str.                                             *)
(***************************************************************************)
\* most scraped rows in one call
MaxRows == 2

NoAddr == [kind |-> "none", city |-> NoneS, region |-> NoneS, country |-> NoneS,
           countryCode |-> NoneS]
Addr(c, r, k, code) == [kind |-> "dict", city |-> c, region |-> r, country |-> k,
                        countryCode |-> code]
StrAddr == [NoAddr EXCEPT !.kind = "str"]

EmptyRow == [emails |-> <<>>, phones |-> <<>>, structuredTelephones |-> <<>>,
             linkedins |-> <<>>, ratingValue |-> NoneN, reviewCount |-> NoneN,
             siteName |-> NoneS, title |-> NoneS, address |-> NoAddr,
             schemaType |-> NoneS]
RowBrand == [emails |-> <<"info@brand.com", "b@other.com">>,
             phones |-> <<"+44 20 7946 0958">>, structuredTelephones |-> <<>>,
             linkedins |-> <<"https://www.linkedin.com/company/brand/posts/?x=1">>,
             ratingValue |-> 4, reviewCount |-> 12,
             siteName |-> "Brand Hotel | Home", title |-> "Brand Hotel - Home",
             address |-> Addr("Paris", "IDF", "FR", NoneS), schemaType |-> "Hotel"]
RowOther == [emails |-> <<"x@brand-mail.org">>,
             phones |-> <<"201-1000">>, structuredTelephones |-> <<"0044 20 7946 0958">>,
             linkedins |-> <<"https://www.linkedin.com/in/joe/">>,
             ratingValue |-> 5, reviewCount |-> 0,
             siteName |-> NoneS, title |-> "Other Co",
             address |-> Addr("Lyon", NoneS, "Germany", NoneS),
             schemaType |-> "Organization"]
RowSparse == [EmptyRow EXCEPT !.emails = <<"b@other.com">>, !.siteName = " ",
              !.address = Addr(NoneS, NoneS, "in", NoneS)]
RowBadAddress == [EmptyRow EXCEPT !.title = "Bad", !.address = StrAddr]
Rows == {EmptyRow, RowBrand, RowOther, RowSparse, RowBadAddress}

NoMaps == [present |-> FALSE, name |-> NoneS, phone |-> NoneS,
           internationalPhoneNumber |-> NoneS, website |-> NoneS, rating |-> NoneN,
           userRatingsTotal |-> NoneN, city |-> NoneS, country |-> NoneS,
           address |-> NoAddr, categoryName |-> NoneS, location |-> NoneS]
MapsFull == [present |-> TRUE, name |-> "Maps Brand", phone |-> "+33 1 23 45 67 89",
             internationalPhoneNumber |-> NoneS, website |-> "https://www.brand.fr",
             rating |-> 3, userRatingsTotal |-> 200, city |-> "Nice", country |-> "ES",
             address |-> Addr("Nice", "PACA", NoneS, "ES"),
             categoryName |-> "Resort hotel", location |-> "51.5,-0.1"]
MapsSparse == [NoMaps EXCEPT !.present = TRUE, !.rating = 0,
               !.internationalPhoneNumber = "+1 555 010 9999",
               !.categoryName = "Cafe", !.location = "0.0,0.0"]
MapsPlaces == {NoMaps, MapsFull, MapsSparse}

SearchResults == {<<>>,
                  <<"https://www.brand.com">>,
                  <<"https://www.linkedin.com/company/brand", "https://www.brand.com/about">>,
                  <<"https://www.facebook.com/brand">>,
                  <<"https://www.brand.com/?ref=facebook.com", "https://www.other.com">>,
                  <<NoneS, "https://www.brand.com">>}

Hints == {NoneS, "https://www.linkedin.com/in/jane-doe/",
          "https://www.linkedin.com/company/brand-hq/posts/"}

Queries == {"brand hotel"}

\* TimezoneFinder().timezone_at(lng, lat): a zone name, or None at sea
timezone_at(loc) == IF loc = "51.5,-0.1" THEN "Europe/London" ELSE NoneS

OutKeys == {"Lead Name", "Designation / Role", "Company Name", "Country / City",
            "Industry Segment", "Property Type", "Star Rating", "Email ID", "Phone",
            "LinkedIn Profile URL", "Department / Function", "Time Zone",
            "Company Name (linked)", "Website URL", "Number of Properties",
            "Number of Rooms", "Average Daily Rate (ADR)", "Location(s) of Operation",
            "Industry Type", "Google Rating", "Total Google Reviews"}
NoOut == [k \in OutKeys |-> ""]

FuseInit ==
    /\ query \in Queries
    /\ google_results \in SearchResults
    /\ scraped_rows \in SeqsUpTo(Rows, MaxRows)
    /\ maps_place \in MapsPlaces
    /\ linkedin_url \in Hints
    /\ fpc = "rows"
    /\ ri = 1
    /\ official = pick_official_site(google_results)
    /\ all_emails = {}
    /\ all_phones = <<>>
    /\ all_linkedins = <<>>
    /\ rating_value = NoneN
    /\ review_count = NoneN
    /\ company = NoneS
    /\ city = NoneS
    /\ country = NoneS
    /\ industry_type = NoneS
    /\ timezone = ""
    /\ locations = {}
    /\ out = NoOut

FuseIdle ==
    /\ query = "none"
    /\ google_results = <<>>
    /\ scraped_rows = <<>>
    /\ maps_place = NoMaps
    /\ linkedin_url = NoneS
    /\ fpc = "idle"
    /\ ri = 1
    /\ official = NoneS
    /\ all_emails = {}
    /\ all_phones = <<>>
    /\ all_linkedins = <<>>
    /\ rating_value = NoneN
    /\ review_count = NoneN
    /\ company = NoneS
    /\ city = NoneS
    /\ country = NoneS
    /\ industry_type = NoneS
    /\ timezone = ""
    /\ locations = {}
    /\ out = NoOut

fuseInputs == <<query, google_results, scraped_rows, maps_place, linkedin_url>>

\* [cl for l in links if (cl := _clean_linkedin(l))]
CleanedLinks(links) ==
    SelectSeq([i \in 1..Len(links) |-> _clean_linkedin(links[i])], Truthy)

\* ", ".join([p for p in loc_parts if p])
LocStr(parts) == join(", ", SelectSeq(parts, Truthy))

\* the schemaType branch without its "organization" arm
TypeOfSchemaNoOrg(stype, current) ==
    IF Truthy(current) THEN current
    ELSE LET t == lower(IF Truthy(stype) THEN stype ELSE "")
         IN IF contains(t, "hotel") THEN "Hotel"
            ELSE IF contains(t, "resort") THEN "Resort"
            ELSE current

\* the schemaType branch of the row loop
TypeOfSchema(stype, current) ==
    IF Truthy(current) THEN current
    ELSE LET t == lower(IF Truthy(stype) THEN stype ELSE "")
         IN IF contains(t, "hotel") THEN "Hotel"
            ELSE IF contains(t, "resort") THEN "Resort"
            ELSE IF contains(t, "organization") THEN "Organization"
            ELSE current

\* x = new if (new is truthy and x is not) else x
FirstTruthy(current, new) == IF ~Truthy(current) /\ Truthy(new) THEN new ELSE current
\* x = new if (new is not None and x is None) else x
FirstNotNone(current, new) == IF new # NoneN /\ current = NoneN THEN new ELSE current

\* one iteration of `for raw in scraped_rows`; addr.get on an address that is
\* a str raises AttributeError, which ends the call
ScrapeRow ==
    /\ fpc = "rows"
    /\ ri <= Len(scraped_rows)
    /\ UNCHANGED notFuseVars
    /\ LET row == scraped_rows[ri]
           addr == row.address
       IN IF addr.kind = "str"
          THEN /\ fpc' = "raised"
               /\ UNCHANGED <<fuseInputs, ri, official, all_emails, all_phones,
                              all_linkedins, rating_value, review_count, company, city,
                              country, industry_type, timezone, locations, out>>
          ELSE /\ all_emails' = all_emails \cup set(row.emails)
               /\ all_phones' = all_phones \o row.phones \o row.structuredTelephones
               /\ all_linkedins' = all_linkedins \o CleanedLinks(row.linkedins)
               /\ rating_value' = FirstNotNone(rating_value, row.ratingValue)
               /\ review_count' = FirstNotNone(review_count, row.reviewCount)
               /\ company' = IF ~Truthy(company)
                             THEN guess_company_name(row.siteName, row.title)
                             ELSE company
               /\ city' = FirstTruthy(city, addr.city)
               /\ country' = FirstTruthy(country, addr.country)
               /\ locations' =
                     LET loc_str == LocStr(<<addr.city, addr.region, addr.country>>)
                     IN IF loc_str # "" THEN locations \cup {loc_str} ELSE locations
               /\ industry_type' = TypeOfSchema(row.schemaType, industry_type)
               /\ ri' = ri + 1
               /\ UNCHANGED <<fuseInputs, fpc, official, timezone, out>>

\* the map-place rating guarded like city and country: taken only when unset
MapsRatingIfUnset(current, new) == IF new # NoneN /\ current = NoneN THEN new ELSE current

\* rating_value = maps_place["rating"] if it is not None
MapsRating(current, new) == IF new # NoneN THEN new ELSE current

\* the `if maps_place:` block
MapsEnrich ==
    /\ fpc = "rows"
    /\ ri > Len(scraped_rows)
    /\ UNCHANGED notFuseVars
    /\ fpc' = "pick"
    /\ IF ~maps_place.present
       THEN UNCHANGED <<official, all_phones, rating_value, review_count, company, city,
                        country, timezone, locations>>
       ELSE LET m == maps_place
                addr == m.address
                maps_phone == IF Truthy(m.phone) THEN m.phone ELSE m.internationalPhoneNumber
                city1 == FirstTruthy(city, m.city)
                country1 == FirstTruthy(country, m.country)
                addr_country == IF Truthy(addr.country) THEN addr.country ELSE addr.countryCode
                tzname == IF m.location # NoneS THEN timezone_at(m.location) ELSE NoneS
            IN /\ company' = IF ~Truthy(company) /\ Truthy(m.name) THEN m.name ELSE company
               /\ all_phones' = IF Truthy(maps_phone) THEN Append(all_phones, maps_phone)
                                ELSE all_phones
               /\ official' = IF Truthy(m.website) THEN m.website ELSE official
               /\ rating_value' = MapsRating(rating_value, m.rating)
               /\ review_count' = MapsRating(review_count, m.userRatingsTotal)
               /\ city' = IF addr.kind = "dict" THEN FirstTruthy(city1, addr.city) ELSE city1
               /\ country' = IF addr.kind = "dict" THEN FirstTruthy(country1, addr_country)
                             ELSE country1
               /\ locations' =
                     LET loc_str == LocStr(<<addr.city, addr.region, addr_country>>)
                     IN IF addr.kind = "dict" /\ loc_str # ""
                        THEN locations \cup {loc_str} ELSE locations
               /\ timezone' = IF Truthy(tzname) THEN tzname ELSE timezone
    /\ UNCHANGED <<fuseInputs, ri, all_emails, all_linkedins, industry_type, out>>

\* the orders in which a set can be iterated
Orders(S) == {o \in [1..Cardinality(S) -> S] : set(o) = S}

\* str(v) with the None test forgotten
StrOfAny(v) == IF v # NoneN THEN str(v) ELSE "None"

\* str(v) if v is not None else ""
StrOrEmpty(v) == IF v # NoneN THEN str(v) ELSE ""

\* v or ""
OrEmpty(v) == IF Truthy(v) THEN v ELSE ""

\* "apply filters / pick best" and "build output".  locations is a Python
\* set of str: the order in which it is iterated is not fixed by the code.
BuildRecord ==
    /\ fpc = "pick"
    /\ UNCHANGED notFuseVars
    /\ \E order \in Orders(locations) :
         LET emails == _filter_emails_by_domain(sorted(all_emails), official)
             phones == _merge_and_clean_phones(all_phones)
             hint == IF Truthy(linkedin_url) THEN _clean_linkedin(linkedin_url) ELSE NoneS
             linkedin_candidates ==
                 (IF Truthy(hint) THEN <<hint>> ELSE <<>>) \o fromkeys(all_linkedins)
             linkedin == _pick_linkedin(linkedin_candidates)
             cls == _classify_industry(OrEmpty(maps_place.categoryName), OrEmpty(industry_type))
             industry_segment == cls[1]
             industry_type1 == IF cls[2] # "" /\ ~Truthy(industry_type) THEN cls[2]
                               ELSE industry_type
             country_expanded == _expand_country(OrEmpty(country))
             locations_str == join(" | ", fromkeys(order))
             name == strip(OrEmpty(company))
         IN /\ industry_type' = industry_type1
            /\ out' = [k \in OutKeys |->
                 CASE k = "Lead Name" -> query
                   [] k \in {"Company Name", "Company Name (linked)"} -> name
                   [] k = "Country / City" ->
                        join(", ", SelectSeq(<<country_expanded, OrEmpty(city)>>, Truthy))
                   [] k = "Industry Segment" -> industry_segment
                   [] k \in {"Star Rating", "Google Rating"} -> StrOrEmpty(rating_value)
                   [] k = "Email ID" -> IF emails # <<>> THEN emails[1] ELSE ""
                   [] k = "Phone" -> IF phones # <<>> THEN phones[1] ELSE ""
                   [] k = "LinkedIn Profile URL" -> OrEmpty(linkedin)
                   [] k = "Time Zone" -> timezone
                   [] k = "Website URL" -> OrEmpty(official)
                   [] k = "Location(s) of Operation" -> locations_str
                   [] k = "Industry Type" -> OrEmpty(industry_type1)
                   [] k = "Total Google Reviews" -> StrOrEmpty(review_count)
                   [] OTHER -> ""]
    /\ fpc' = "done"
    /\ UNCHANGED <<fuseInputs, ri, official, all_emails, all_phones, all_linkedins,
                   rating_value, review_count, company, city, country, timezone,
                   locations>>

FuseNext ==
    \/ ScrapeRow
    \/ MapsEnrich
    \/ BuildRecord

(***************************************************************************)
(* Properties of the helpers.                                              *)
(***************************************************************************)
\* the official site's host, its registrable domain (last two labels) and
\* its brand token (second-level label), as the specification defines them
SiteHost(url) == IF Truthy(url) THEN Before(lower(netloc(url)), ":") ELSE ""
SiteKnown(url) == SiteHost(url) # ""
Registrable(url) ==
    LET parts == split(SiteHost(url), ".")
    IN IF Len(parts) >= 2 THEN parts[Len(parts) - 1] \o "." \o parts[Len(parts)]
       ELSE SiteHost(url)
BrandToken(url) ==
    LET parts == split(SiteHost(url), ".")
    IN IF Len(parts) >= 2 THEN parts[Len(parts) - 1] ELSE parts[1]
EmailDomain(e) == lower(After(e, "@"))
ExactMatches(es, url) ==
    {e \in set(es) : contains(e, "@") /\ EmailDomain(e) = Registrable(url)}
TokenMatches(es, url) ==
    {e \in set(es) : contains(e, "@") /\ contains(EmailDomain(e), BrandToken(url))}

FilterReturned == ufn = "_filter_emails_by_domain" /\ uret # <<>>

C6_EmailStrictPrecedence ==
    (FilterReturned /\ SiteKnown(uarg[2]) /\ ExactMatches(uarg[1], uarg[2]) # {})
    => set(uret[1]) = ExactMatches(uarg[1], uarg[2])

\* C8: link canonicalisation is idempotent: cleaning a cleaned link changes
\* nothing; and ".../company/acme/posts" cleans to ".../company/acme".
C8_LinkIdempotent ==
    ufn = "_clean_linkedin" =>
        /\ Len(uret) = 2 => uret[2] = uret[1]
        /\ (uarg = LinkBase \o "/posts" /\ uret # <<>>) => uret[1] = LinkBase

\* the number of digits in a text
DigitCount(p) == Cardinality({i \in 1..Len(p) : Ch(p, i) \in Digits})

\* the record's primary phone, when there is one, holds 8 to 15 digits
RecordPhoneValid ==
    (fpc = "done" /\ out["Phone"] # "") => DigitCount(out["Phone"]) \in 8..15

\* C16: phone validity boundary. _clean_phone accepts a raw string exactly
\* when it holds 8 to 15 digits (7 and 16 are rejected, 8 and 15 accepted);
\* every entry of the list _merge_and_clean_phones returns is an accepted raw
\* string's digits and plus signs, so no rejected value is in it.
C16_PhoneBoundary ==
    /\ (ufn = "_clean_phone" /\ uret # <<>>) =>
          /\ uret[1] # NoneS <=> DigitCount(uarg) \in 8..15
          /\ uret[1] # NoneS => DigitCount(uret[1]) = DigitCount(uarg)
    /\ (ufn = "_merge_and_clean_phones" /\ uret # <<>>) =>
          /\ \A j \in 1..Len(uret[1]) :
                /\ DigitCount(uret[1][j]) \in 8..15
                /\ \E i \in 1..Len(uarg) :
                      /\ DigitCount(uarg[i]) \in 8..15
                      /\ uret[1][j] = KeepChars(uarg[i], Digits \cup {"+"})
          /\ \A i \in 1..Len(uarg) :
                DigitCount(uarg[i]) \in 8..15 =>
                    KeepChars(uarg[i], Digits \cup {"+"}) \in set(uret[1])
    /\ RecordPhoneValid

C16_Witness ==
    /\ ufn = "_merge_and_clean_phones"
    /\ uarg = <<"1234 5678 9012 3456", "tel: +123 4567 8901 2345">>
    /\ uret = <<<<"+123456789012345">>>>

\* the keyword clusters of the three rules
HospitalityWords == {"hotel", "resort", "lodging", "accommodation", "apartment", "stay",
                     "hostel"}
SoftwareWords == {"software", "it", "technology", "saas", "ai", "data"}
FoodWords == {"restaurant", "cafe", "bar"}
ClassifiedText == lower(OrEmpty(uarg[1])) \o " " \o lower(OrEmpty(uarg[2]))
Mentions(words) == \E w \in words : contains(ClassifiedText, w)

\* C17: industry rule priority. The hospitality cluster is tested first, then
\* software/technology, then food service, and the first rule that matches
\* decides the segment; 'hotel' together with 'software' gives Hospitality /
\* Hotel, and a software keyword with a food keyword but no hospitality
\* keyword gives Software/IT.
C17_IndustryPriority ==
    (ufn = "_classify_industry" /\ uret # <<>>) =>
        LET segment == uret[1][1]
            type == uret[1][2]
        IN /\ Mentions(HospitalityWords) => segment = "Hospitality"
           /\ (Mentions({"hotel"}) /\ Mentions({"software"})) => type = "Hotel"
           /\ (~Mentions(HospitalityWords) /\ Mentions(SoftwareWords)) =>
                 (segment = "Software/IT" /\ type = "")
           /\ (~Mentions(HospitalityWords) /\ ~Mentions(SoftwareWords)
                  /\ Mentions(FoodWords)) => segment = "Food & Beverage"
           /\ (~Mentions(HospitalityWords) /\ ~Mentions(SoftwareWords)
                  /\ ~Mentions(FoodWords)) => (segment = "" /\ type = "")

C17_Witness ==
    /\ ufn = "_classify_industry"
    /\ uarg = <<"Hotel software", "">>
    /\ uret = <<<<"Hospitality", "Hotel">>>>

\* the shapes a cleaned phone may have: the digits of the raw text, alone
\* or with one "+" in front
DigitsMaybePlus(raw) == {KeepChars(raw, Digits), "+" \o KeepChars(raw, Digits)}

\* C27: shape of a cleaned phone. A value _clean_phone returns consists of
\* the digits of the raw text, optionally preceded by a single leading "+";
\* a "+" in any later position is removed. The list
\* _merge_and_clean_phones returns holds such values and no value twice.
C27_PhoneShape ==
    /\ (ufn = "_clean_phone" /\ uret # <<>> /\ uret[1] # NoneS) =>
          uret[1] \in DigitsMaybePlus(uarg)
    /\ (ufn = "_merge_and_clean_phones" /\ uret # <<>>) =>
          /\ \A i, j \in 1..Len(uret[1]) : uret[1][i] = uret[1][j] => i = j
          /\ \A i \in 1..Len(uret[1]) : \E k \in 1..Len(uarg) :
                uret[1][i] \in DigitsMaybePlus(uarg[k])

(***************************************************************************)
(* Properties of assemble_lead_record.                                     *)
(***************************************************************************)
RowIdx == 1..Len(scraped_rows)
MinOf(S) == CHOOSE i \in S : \A j \in S : i <= j

\* what the scraped rows supply, first row first
RowCompany(i) == guess_company_name(scraped_rows[i].siteName, scraped_rows[i].title)
ScrapedCompany ==
    LET S == {i \in RowIdx : Truthy(RowCompany(i))}
    IN IF S = {} THEN NoneS ELSE RowCompany(MinOf(S))
ScrapedCity ==
    LET S == {i \in RowIdx : Truthy(scraped_rows[i].address.city)}
    IN IF S = {} THEN NoneS ELSE scraped_rows[MinOf(S)].address.city
ScrapedCountry ==
    LET S == {i \in RowIdx : Truthy(scraped_rows[i].address.country)}
    IN IF S = {} THEN NoneS ELSE scraped_rows[MinOf(S)].address.country
ScrapedRating ==
    LET S == {i \in RowIdx : scraped_rows[i].ratingValue # NoneN}
    IN IF S = {} THEN NoneN ELSE scraped_rows[MinOf(S)].ratingValue
ScrapedReviews ==
    LET S == {i \in RowIdx : scraped_rows[i].reviewCount # NoneN}
    IN IF S = {} THEN NoneN ELSE scraped_rows[MinOf(S)].reviewCount

\* what the map place supplies
MapsCity ==
    IF Truthy(maps_place.city) THEN maps_place.city ELSE maps_place.address.city
MapsCountry ==
    IF Truthy(maps_place.country) THEN maps_place.country
    ELSE IF Truthy(maps_place.address.country) THEN maps_place.address.country
    ELSE maps_place.address.countryCode

PreferS(first, second) == IF Truthy(first) THEN first ELSE second
PreferN(first, second) == IF first # NoneN THEN first ELSE second

CountryCity(k, c) ==
    join(", ", SelectSeq(<<_expand_country(OrEmpty(k)), OrEmpty(c)>>, Truthy))

NamePlaceAsScrapeFirst ==
    /\ out["Company Name"] = strip(OrEmpty(PreferS(ScrapedCompany, maps_place.name)))
    /\ out["Country / City"] = CountryCity(PreferS(ScrapedCountry, MapsCountry),
                                           PreferS(ScrapedCity, MapsCity))

\* C4: scalar precedence. Company name, city, country, rating value and
\* rating count each carry the scraped rows' value when a row supplied one,
\* and the map-place value only when none did.
C4_ScrapeBeforeMaps ==
    fpc = "done" =>
        /\ NamePlaceAsScrapeFirst
        /\ out["Google Rating"] = StrOrEmpty(PreferN(ScrapedRating, maps_place.rating))
        /\ out["Total Google Reviews"] =
              StrOrEmpty(PreferN(ScrapedReviews, maps_place.userRatingsTotal))

\* C4 as amended: company name, city and country carry the scraped value
\* when a row supplied one and the map-place value otherwise; rating value
\* and rating count carry the map-place value when the map place supplies
\* one, and the first scraped value only when it does not.
C4_ScalarPrecedence ==
    fpc = "done" =>
        /\ NamePlaceAsScrapeFirst
        /\ out["Google Rating"] = StrOrEmpty(PreferN(maps_place.rating, ScrapedRating))
        /\ out["Star Rating"] = out["Google Rating"]
        /\ out["Total Google Reviews"] =
              StrOrEmpty(PreferN(maps_place.userRatingsTotal, ScrapedReviews))

C4_Witness ==
    /\ fpc = "done"
    /\ ScrapedRating # NoneN
    /\ maps_place.rating # NoneN
    /\ ScrapedRating # maps_place.rating
    /\ out["Google Rating"] = str(maps_place.rating)
    /\ Truthy(ScrapedCompany)
    /\ Truthy(maps_place.name)
    /\ out["Company Name"] = strip(ScrapedCompany)
    /\ Truthy(ScrapedCity)
    /\ Truthy(MapsCity)
    /\ ScrapedCity # MapsCity

\* C7: hint-link priority. Whenever a non-empty linkedin_url hint is given,
\* the record's LinkedIn Profile URL is the normalised hint.
C7_HintPriority ==
    (fpc = "done" /\ Truthy(linkedin_url)) =>
        out["LinkedIn Profile URL"] = _clean_linkedin(linkedin_url)

\* a search result's host, and whether it is one of the non-authoritative hosts
HostOf(url) == IF Truthy(url) THEN lower(netloc(url)) ELSE ""
HostIsAuthoritative(url) ==
    \A i \in 1..Len(bad_hosts) : ~contains(HostOf(url), bad_hosts[i])
FirstAuthoritative ==
    IF google_results = <<>> THEN NoneS
    ELSE LET good == SelectSeq(google_results, HostIsAuthoritative)
         IN IF good # <<>> THEN good[1] ELSE google_results[1]

\* C18: website selection. Without a map-place website the record's Website
\* URL is the url of the first search result whose host is not a
\* non-authoritative host, or of the first result when every host is one;
\* a map-place website takes its place.
C18_WebsiteSelection ==
    fpc = "done" =>
        out["Website URL"] =
            IF maps_place.present /\ Truthy(maps_place.website) THEN maps_place.website
            ELSE OrEmpty(FirstAuthoritative)

\* C19: fusion never fails on bad source fields: assemble_lead_record raises
\* no exception, whatever shape a per-source field has.
C19_FusionNeverRaises == fpc # "raised"

\* the composites in the order the sources are read: the scraped rows in
\* input order, then the map-place address
RowComposite(i) ==
    LocStr(<<scraped_rows[i].address.city, scraped_rows[i].address.region,
             scraped_rows[i].address.country>>)
MapsComposite ==
    LET a == maps_place.address
    IN IF maps_place.present /\ a.kind = "dict"
       THEN LocStr(<<a.city, a.region,
                     IF Truthy(a.country) THEN a.country ELSE a.countryCode>>)
       ELSE ""
CompositesSeen ==
    SelectSeq([i \in 1..Len(scraped_rows) |-> RowComposite(i)] \o <<MapsComposite>>, Truthy)

\* C20: location composite order. Location(s) of Operation lists each
\* distinct non-empty composite once, in the order of its first occurrence
\* across the sources, joined by " | ".
C20_LocationOrder ==
    fpc = "done" =>
        out["Location(s) of Operation"] = join(" | ", fromkeys(CompositesSeen))

\* the values the inputs hold
InputPhones ==
    UNION {set(scraped_rows[i].phones) \cup set(scraped_rows[i].structuredTelephones)
           : i \in RowIdx}
        \cup {maps_place.phone, maps_place.internationalPhoneNumber}
InputLinks == UNION {set(scraped_rows[i].linkedins) : i \in RowIdx} \cup {linkedin_url}
InputEmails == UNION {set(scraped_rows[i].emails) : i \in RowIdx}
InputRatings == {scraped_rows[i].ratingValue : i \in RowIdx} \cup {maps_place.rating}
InputReviews == {scraped_rows[i].reviewCount : i \in RowIdx} \cup {maps_place.userRatingsTotal}
InputNames == {RowCompany(i) : i \in RowIdx} \cup {maps_place.name}
InputTypeTexts == {scraped_rows[i].schemaType : i \in RowIdx} \cup {maps_place.categoryName}
InputPlaces ==
    UNION {{scraped_rows[i].address.city, scraped_rows[i].address.region,
            scraped_rows[i].address.country} : i \in RowIdx}
        \cup {maps_place.city, maps_place.country, maps_place.address.city,
              maps_place.address.region, maps_place.address.country,
              maps_place.address.countryCode}

EmptyInputs ==
    /\ google_results = <<>>
    /\ scraped_rows = <<>>
    /\ ~maps_place.present
    /\ ~Truthy(linkedin_url)

BlankKeys == {"Designation / Role", "Property Type", "Department / Function",
              "Number of Properties", "Number of Rooms", "Average Daily Rate (ADR)"}

\* C9: fusion does not fabricate. With empty inputs every field but Lead Name
\* is empty; in general every non-empty field is a value of an input or a
\* helper's normalisation of one.
C9_NonFabrication ==
    fpc = "done" =>
        /\ out["Lead Name"] = query
        /\ EmptyInputs => \A k \in OutKeys \ {"Lead Name"} : out[k] = ""
        /\ \A k \in BlankKeys : out[k] = ""
        /\ out["Company Name"] \in {""} \cup {strip(OrEmpty(n)) : n \in InputNames}
        /\ out["Company Name (linked)"] = out["Company Name"]
        /\ out["Email ID"] \in {""} \cup InputEmails
        /\ out["Phone"] \in {""} \cup {_clean_phone(p) : p \in InputPhones \ {NoneS}}
        /\ out["LinkedIn Profile URL"] \in
              {""} \cup {_clean_linkedin(l) : l \in InputLinks \ {NoneS}}
        /\ out["Website URL"] \in {""} \cup set(google_results) \cup {maps_place.website}
        /\ out["Google Rating"] \in {""} \cup {str(v) : v \in InputRatings \ {NoneN}}
        /\ out["Star Rating"] \in {""} \cup {str(v) : v \in InputRatings \ {NoneN}}
        /\ out["Total Google Reviews"] \in {""} \cup {str(v) : v \in InputReviews \ {NoneN}}
        /\ out["Time Zone"] # "" =>
              (maps_place.location # NoneS /\ out["Time Zone"] = timezone_at(maps_place.location))
        /\ (out["Industry Segment"] # "" \/ out["Industry Type"] # "") =>
              \E t \in InputTypeTexts : Truthy(t)
        /\ (out["Country / City"] # "" \/ out["Location(s) of Operation"] # "") =>
              \E x \in InputPlaces : Truthy(x)

C9_Witness ==
    /\ fpc = "done"
    /\ EmptyInputs
    /\ out = [NoOut EXCEPT !["Lead Name"] = query]

\* every keyword of the industry rules
TaxonomyWords == {"hotel", "resort", "lodging", "accommodation", "apartment", "stay",
                  "hostel", "software", "it", "technology", "saas", "ai", "data",
                  "restaurant", "cafe", "bar"}

\* the rows whose schemaType names a hotel, a resort or an organization
TypedRows ==
    {i \in RowIdx : AnyIn(lower(OrEmpty(scraped_rows[i].schemaType)),
                          {"hotel", "resort", "organization"})}

\* the type the first such row gives
SchemaDerivedType ==
    IF TypedRows = {} THEN ""
    ELSE LET t == lower(scraped_rows[MinOf(TypedRows)].schemaType)
         IN IF contains(t, "hotel") THEN "Hotel"
            ELSE IF contains(t, "resort") THEN "Resort"
            ELSE "Organization"

\* no keyword occurs in the map category nor in the schema-derived type
NoTaxonomyMatch ==
    ~AnyIn(lower(OrEmpty(maps_place.categoryName)) \o " " \o lower(SchemaDerivedType),
           TaxonomyWords)

\* C29 as stated: when no taxonomy keyword occurs in the category/type text,
\* both Industry Segment and Industry Type of the record are empty.
C29_NoMatchBothEmpty ==
    (fpc = "done" /\ NoTaxonomyMatch) =>
        (out["Industry Segment"] = "" /\ out["Industry Type"] = "")

\* C29: when no taxonomy keyword occurs in the category/type text, Industry
\* Segment is empty and Industry Type is the type the scraped schema types
\* gave: "Organization" when the first typed row names an organization,
\* empty when no row is typed.
C29_NoMatchKeepsSchemaType ==
    (fpc = "done" /\ NoTaxonomyMatch) =>
        /\ out["Industry Segment"] = ""
        /\ out["Industry Type"] = SchemaDerivedType
        /\ out["Industry Type"] \in {"", "Organization"}

C29_Witness ==
    /\ fpc = "done"
    /\ NoTaxonomyMatch
    /\ \E i \in RowIdx : scraped_rows[i].schemaType = "Organization"
    /\ out["Industry Segment"] = ""
    /\ out["Industry Type"] = "Organization"

(***************************************************************************)
(* Properties of validate_companies.  What the specification takes a       *)
(* revenue and an employee text to mean is written out here on its own,    *)
(* apart from the two implementations: revenue in millions with K, M, B    *)
(* and comma separators handled, employees by the lower bound of a range.  *)
(***************************************************************************)
CandidateFields == {"company", "website", "revenue", "headquarters", "employees", "source"}

\* a returned entry cut down to the candidate's own fields
Core(e) == [k \in CandidateFields |-> e[k]]

Validated == ufn \in TextFns /\ uret # <<>>
accepted == uret[1][1]
rejectedList == uret[1][2]
IsAccepted(c) == \E i \in 1..Len(accepted) : Core(accepted[i]) = c
IsRejected(c) == \E i \in 1..Len(rejectedList) : Core(rejectedList[i]) = c

WithoutCommas(s) == join("", split(s, ","))
IsDigits(t) == t # "" /\ KeepChars(t, Digits) = t

\* the employee text as the specification reads it: the lower bound
StatedEmpText(c) == strip(Before(WithoutCommas(c.employees), "-"))
StatedEmpParses(c) == IsDigits(StatedEmpText(c))
StatedEmpOk(c) ==
    /\ StatedEmpParses(c)
    /\ DigitsValue(StatedEmpText(c)) >= 100
    /\ DigitsValue(StatedEmpText(c)) <= 5000

\* the revenue text as the specification reads it: "$", a number, K/M/B
StatedRevText(c) ==
    LET s == strip(WithoutCommas(c.revenue))
    IN IF startswith(s, "$") THEN Tail(s) ELSE s
StatedRevNumber(c) == RunOf(StatedRevText(c), Digits \cup {"."})
StatedRevUnit(c) ==
    strip(SubSeq(StatedRevText(c), Len(StatedRevNumber(c)) + 1, Len(StatedRevText(c))))
StatedRevParses(c) ==
    /\ ~FloatRaises(StatedRevNumber(c))
    /\ StatedRevUnit(c) \in {"", "K", "M", "B"}
\* in dollars; 0.5 million = 500000, 50 million = 50000000
StatedRevDollars(c) ==
    FloatMilli(StatedRevNumber(c)) *
        (CASE StatedRevUnit(c) = "K" -> 1
           [] StatedRevUnit(c) = "B" -> 1000000
           [] OTHER -> 1000)
StatedRevOk(c) ==
    /\ StatedRevParses(c)
    /\ StatedRevDollars(c) >= 500000
    /\ StatedRevDollars(c) <= 50000000

FailingChecks(c) ==
    (IF StatedEmpOk(c) THEN 0 ELSE 1) + (IF StatedRevOk(c) THEN 0 ELSE 1)

HasReasons(e) == "rejection_reasons" \in DOMAIN e
SomeReasonNames(e, word) ==
    HasReasons(e) /\ \E i \in 1..Len(e.rejection_reasons) :
                        contains(e.rejection_reasons[i], word)

\* C21: validation reasons. employees "100-500" with revenue "$25M" is
\* accepted; employees "50" with revenue "$25M" is rejected with a reason
\* that names the employee count; revenue "$75M" is rejected with a reason
\* that names the revenue; and every rejected candidate carries its reasons,
\* one per failing check.
C21_ValidationReasons ==
    Validated =>
        /\ \A i \in 1..Len(uarg) :
              /\ (uarg[i].employees = "100-500" /\ uarg[i].revenue = "$25M")
                    => IsAccepted(uarg[i])
              /\ (~StatedEmpOk(uarg[i]) \/ ~StatedRevOk(uarg[i])) => IsRejected(uarg[i])
        /\ \A i \in 1..Len(rejectedList) :
              LET e == rejectedList[i]
              IN /\ HasReasons(e)
                 /\ Len(e.rejection_reasons) = FailingChecks(Core(e))
                 /\ ~StatedEmpOk(Core(e)) => SomeReasonNames(e, "Employee")
                 /\ ~StatedRevOk(Core(e)) => SomeReasonNames(e, "Revenue")

HasDigit(t) == KeepChars(t, Digits) # ""

\* C22: acceptance requires both values to parse. An accepted candidate's
\* revenue text and employee text each write a number; a candidate whose
\* revenue or employee count is "Unknown" is never accepted.
C22_AcceptedParse ==
    Validated =>
        \A i \in 1..Len(accepted) :
            /\ HasDigit(accepted[i].revenue)
            /\ HasDigit(accepted[i].employees)
            /\ accepted[i].revenue # "Unknown"
            /\ accepted[i].employees # "Unknown"

\* a candidate that only the revenue check can reject
OnlyRevenueDecides(c) ==
    /\ StatedEmpOk(c)
    /\ ~contains(c.employees, "-")
    /\ BrandReasons(c) = <<>>
    /\ StatedRevParses(c)

\* C23: revenue is normalised to millions before the range check (K divided
\* by 1000, B multiplied by 1000, M or no suffix as millions). A candidate
\* whose employee count passes is accepted exactly when its revenue in
\* millions lies in [0.5, 50]: "$500K" counts as 0.5 and passes, "$2B"
\* counts as 2000 and fails.
C23_RevenueInMillions ==
    Validated =>
        \A i \in 1..Len(uarg) :
            OnlyRevenueDecides(uarg[i]) => (IsAccepted(uarg[i]) <=> StatedRevOk(uarg[i]))

\* a candidate with an employee range that only the employee check can reject
OnlyRangeDecides(c) ==
    /\ contains(c.employees, "-")
    /\ StatedEmpParses(c)
    /\ IsDigits(strip(After(WithoutCommas(c.employees), "-")))
    /\ StatedRevOk(c)
    /\ BrandReasons(c) = <<>>

\* C24: an employee range "lo-hi" is checked by its lower bound only: the
\* candidate passes the employee check exactly when lo lies in [100, 5000],
\* whatever hi is ("100-6000" passes).
C24_LowerBoundOnly ==
    Validated =>
        \A i \in 1..Len(uarg) :
            OnlyRangeDecides(uarg[i]) => (IsAccepted(uarg[i]) <=> StatedEmpOk(uarg[i]))

\* the entries of s the mask keeps, in order
Masked(s, mask, keep) ==
    LET idx == {i \in 1..Len(s) : mask[i] = keep}
        RECURSIVE Pick(_, _)
        Pick(i, acc) == IF i > Len(s) THEN acc
                        ELSE Pick(i + 1, IF i \in idx THEN Append(acc, s[i]) ELSE acc)
    IN Pick(1, <<>>)

Cores(s) == [i \in 1..Len(s) |-> Core(s[i])]

\* C30: validate_companies partitions its input. The two returned lists
\* together hold as many entries as the input; there is a split of the input
\* positions such that the accepted list is the input at the one part and
\* the rejected list the input at the other, each in input order; the six
\* fields of every candidate are returned unchanged, an accepted candidate
\* as it was and a rejected one with at most its reasons added.
C30_Partition ==
    Validated =>
        /\ Len(accepted) + Len(rejectedList) = Len(uarg)
        /\ \E mask \in [1..Len(uarg) -> BOOLEAN] :
              /\ accepted = Masked(uarg, mask, TRUE)
              /\ Cores(rejectedList) = Masked(uarg, mask, FALSE)
        /\ \A i \in 1..Len(rejectedList) :
              DOMAIN rejectedList[i] \subseteq CandidateFields \cup {"rejection_reasons"}

\* two different candidates, the first rejected and the second accepted
C30_Witness ==
    /\ Validated
    /\ Len(uarg) = 2
    /\ uarg[1] # uarg[2]
    /\ accepted = <<uarg[2]>>
    /\ Cores(rejectedList) = <<uarg[1]>>

(***************************************************************************)
(* Properties of parse_companies.                                          *)
(***************************************************************************)
Parsed == ufn \in ParseFns /\ uret # <<>>
IsStrict == ufn = "prospect.parse_companies"

\* the blocks of the text parsed, blocks[1:]
TextBlocks == Tail(SplitBlocks(Concat(uarg), ""))

RECURSIVE EachAlone(_, _)
\* what each block gives when it is parsed on its own, block after block
EachAlone(blocks, strict) ==
    IF blocks = <<>> THEN <<>>
    ELSE Gather(<<Head(blocks)>>, <<>>, strict) \o EachAlone(Tail(blocks), strict)

\* of the candidates of one name, the first
FirstPerName(cands) ==
    Masked(cands,
           [i \in 1..Len(cands) |-> \A j \in 1..(i - 1) : cands[j].company # cands[i].company],
           TRUE)

\* C25: candidates are deduplicated by name. No two returned candidates
\* have the same company name; of several blocks with one name the fields
\* of the first are kept; and the candidates stand in the order in which
\* their names first appear in the text.
C25_DedupFirstWins ==
    Parsed =>
        /\ \A i, j \in 1..Len(uret[1]) :
              uret[1][i].company = uret[1][j].company => i = j
        /\ uret[1] = FirstPerName(EachAlone(TextBlocks, IsStrict))

\* two blocks of one name and different fields, the first one returned
C25_Witness ==
    /\ Parsed
    /\ Len(TextBlocks) = 2
    /\ LET each == EachAlone(TextBlocks, IsStrict)
       IN /\ Len(each) = 2
          /\ each[1].company = each[2].company
          /\ each[1] # each[2]
          /\ uret[1] = <<each[1]>>

\* a block whose first line cannot hold a name: it begins with "*" or has
\* no "**" in it
NoNameLine(block) ==
    LET line == Before(block, "\n")
    IN startswith(line, "*") \/ ~contains(line, "**")

Without(s, k) == SubSeq(s, 1, k - 1) \o SubSeq(s, k + 1, Len(s))

\* the label each field is searched by
LabelOf(field) ==
    CASE field = "website" -> "Website"
      [] field = "revenue" -> "Revenue:"
      [] field = "headquarters" -> "Headquarters:"
      [] field = "employees" -> "Employee"
      [] field = "source" -> "Verified Source:"

\* the first block that carries the name
FirstNamed(name) ==
    LET at == {k \in 1..Len(TextBlocks) :
                  ~NoNameLine(TextBlocks[k]) /\ strip(NameOf(TextBlocks[k])) = name}
    IN IF at = {} THEN 0 ELSE MinOf(at)

\* C26: tolerant parsing, in person_prospect.py. The call returns a list
\* for every text; a block from which no name can be extracted is dropped,
\* and the candidates are the ones the text gives without that block; every
\* candidate has the six fields, and a field whose label its block does not
\* hold is the literal "Unknown".
C26_TolerantParsing ==
    (Parsed /\ ~IsStrict) =>
        /\ \A k \in 1..Len(TextBlocks) :
              NoNameLine(TextBlocks[k]) =>
                  uret[1] = Gather(Without(TextBlocks, k), <<>>, FALSE)
        /\ Len(uret[1]) <= Len(TextBlocks)
        /\ \A i \in 1..Len(uret[1]) :
              /\ DOMAIN uret[1][i] = CandidateFields
              /\ FirstNamed(uret[1][i].company) # 0
              /\ \A f \in CandidateFields \ {"company"} :
                    ~contains(TextBlocks[FirstNamed(uret[1][i].company)], LabelOf(f))
                        => uret[1][i][f] = "Unknown"

\* a nameless block dropped beside a block that yields a candidate with a
\* defaulted field
C26_Witness ==
    /\ Parsed
    /\ ~IsStrict
    /\ Len(TextBlocks) = 2
    /\ NoNameLine(TextBlocks[1])
    /\ Len(uret[1]) = 1
    /\ uret[1][1].company = "Acme"
    /\ uret[1][1].source = "Unknown"
    /\ uret[1][1].revenue = "500K"

(***************************************************************************)
(* Specifications.                                                         *)
(***************************************************************************)
\* each machine runs alone, the others at rest
InitJob == JobInit /\ UtilIdle /\ FuseIdle
InitFuse == FuseInit /\ JobIdle /\ UtilIdle
InitUtil == UtilInit /\ JobIdle /\ FuseIdle

SpecJob == InitJob /\ [][JobNext]_vars

\* time.sleep(poll_interval): over enough sleeps the clock moves on a tick
ClockAdvances == WaitSleep /\ elapsed' > elapsed

\* every HTTP call returns and the clock advances between polls
SpecJobLive == SpecJob /\ WF_vars(JobNext) /\ SF_vars(ClockAdvances)

SpecFuse == InitFuse /\ [][FuseNext]_vars

SpecUtil == InitUtil /\ [][UtilNext]_vars

InitText == TextInit /\ JobIdle /\ FuseIdle
SpecText == InitText /\ [][TextNext]_vars

====
